---- MODULE Spec2Model ----
(***************************************************************************)
(* Model of pysd/py_backend/builder.py: the assembly stage that merges     *)
(* translated element fragments, builds external-object elements with a    *)
(* dedup registry, and emits the model text.                               *)
(*                                                                         *)
(* Python values whose type matters to the code are tagged records         *)
(* [t, v]: t is the Python type ("str", "list", "NoneType"), v the value.  *)
(* A str is a sequence of tokens (short pieces of text), so that           *)
(* formatting, substring tests and splits are computed, not assumed.       *)
(***************************************************************************)
EXTENDS Integers, Sequences, FiniteSets, TLC

VARIABLES
    build_names,     \* builder.build_names: names given to external objects
    import_modules,  \* builder.import_modules
    elements,        \* the translator's element list of the model in translation
    log,             \* the external-source requests since the last registry reset
    last,            \* the last operation of the session, its outcome, and for
                     \* the one after a build that returned what that build built
    emitted,         \* the functions text the last build assembled, with the
                     \* element list and the requests it was called after
    m_input,         \* merge_partial_elements: element_list
    m_orig,          \* the raw fragments the merge session started from
    m_i,             \* merge_partial_elements: number of elements looped over
    m_outs,          \* merge_partial_elements: outs (insertion-ordered dict)
    m_pc,            \* merge_partial_elements: "loop", "done" or "error"
    m_stage,         \* 1: merging raw fragments; 2: merging a merged result again
    m_result,        \* what merge_partial_elements returned
    e_given,         \* build_element: the element and import_modules at the call
    e_element,       \* build_element: element, which the call updates in place
    e_func,          \* build_element: the text returned
    e_pc,            \* build_element: "call", "returned" or "raised"
    c_call,          \* a construct builder call: the builder and its arguments
    c_out,           \* what the construct builder returned
    c_pc,            \* the construct builder: "call", "returned" or "raised"
    f_call,          \* build_function_call: function_def and user_arguments
    f_out,           \* build_function_call: the outcome of each call made
    f_n,             \* build_function_call: calls made with f_call so far
    p_calls          \* the builder calls whose records are in elements, in call
                     \* order: the builder, its identifier, the names returned

vars == <<build_names, import_modules, elements, log, last, emitted,
          m_input, m_orig, m_i, m_outs, m_pc, m_stage, m_result,
          e_given, e_element, e_func, e_pc,
          c_call, c_out, c_pc, f_call, f_out, f_n, p_calls>>

sessionVars == <<build_names, import_modules, elements, log, last, emitted>>
mergeVars == <<m_input, m_orig, m_i, m_outs, m_pc, m_stage, m_result>>
elementVars == <<e_given, e_element, e_func, e_pc>>
constructVars == <<c_call, c_out, c_pc>>
callVars == <<f_call, f_out, f_n>>
processVars == <<p_calls>>

----------------------------------------------------------------------------
(* Bounds of the model *)

\* longest fragment list handed to merge_partial_elements
MaxFrags == 3

\* most external-source requests between two resets of the registries
MaxRequests == 3

\* longest element list of one model translation
MaxElems == 3

\* most subscripts in the subs list handed to a construct builder
MaxSubs == 2

\* longest parameter list of a function definition
MaxParams == 2

\* most user arguments of a function call
MaxArgs == 3

\* most calls of build_function_call with one function definition
MaxCalls == 2

\* most builder calls whose records no build has been handed yet
MaxSteps == 3

----------------------------------------------------------------------------
(* Python values *)

S(tokens) == [t |-> "str", v |-> tokens]
L(items) == [t |-> "list", v |-> items]
PyNone == [t |-> "NoneType", v |-> <<>>]
\* a key that is not in the dictionary
Absent == [t |-> "absent", v |-> <<>>]

\* import_modules as the module sets it up
ImportInit ==
    [numpy |-> FALSE, xarray |-> FALSE, subs |-> FALSE,
     functions |-> {}, external |-> {}, utils |-> {}]

\* Python truth value of a str, list or None
Truthy(x) == x.t \in {"str", "list"} /\ x.v # <<>>

\* Python's  a or b
PyOr(a, b) == IF Truthy(a) THEN a ELSE b

\* str.replace(r'\ ', ''): one left-to-right pass over the characters
RECURSIVE replace_bs(_)
replace_bs(s) ==
    IF Len(s) < 2 THEN s
    ELSE IF s[1] = "\\" /\ s[2] = " "
         THEN replace_bs(SubSeq(s, 3, Len(s)))
         ELSE <<s[1]>> \o replace_bs(Tail(s))

----------------------------------------------------------------------------
(* merge_partial_elements *)

\* position of name among the keys of outs, 0 when it is not a key
RECURSIVE IndexOf(_, _, _)
IndexOf(outs, name, k) ==
    IF k > Len(outs) THEN 0
    ELSE IF outs[k].py_name = name THEN k
    ELSE IndexOf(outs, name, k + 1)

\* eqn = element['expr'] if 'expr' in element else element['eqn']
EqnOf(element) == IF element.expr.t # "absent" THEN element.expr ELSE element.eqn

\* outs[name] = {...}: the record of a name seen for the first time
NewOut(element) ==
    [py_name |-> element.py_name,
     real_name |-> element.real_name,
     doc |-> element.doc,
     py_expr |-> L(<<element.py_expr>>),
     unit |-> element.unit,
     subs |-> L(<<element.subs>>),
     lims |-> element.lims,
     eqn |-> L(<<S(replace_bs(EqnOf(element).v))>>),
     expr |-> Absent,
     kind |-> element.kind,
     arguments |-> element.arguments]

\* FillOut without line 342: the subscripts of the fragment are not appended
FillOut_drops_subs(out, element) ==
    [out EXCEPT
        !.doc = PyOr(out.doc, element.doc),
        !.unit = PyOr(out.unit, element.unit),
        !.lims = PyOr(out.lims, element.lims),
        !.eqn = L(out.eqn.v \o <<S(replace_bs(EqnOf(element).v))>>),
        !.py_expr = L(out.py_expr.v \o <<element.py_expr>>),
        !.arguments = element.arguments]

\* FillOut with the operands of  or  exchanged: the last filled value wins
FillOut_last_wins(out, element) ==
    [out EXCEPT
        !.doc = PyOr(element.doc, out.doc),
        !.unit = PyOr(element.unit, out.unit),
        !.lims = PyOr(element.lims, out.lims),
        !.eqn = L(out.eqn.v \o <<S(replace_bs(EqnOf(element).v))>>),
        !.py_expr = L(out.py_expr.v \o <<element.py_expr>>),
        !.subs = L(out.subs.v \o <<element.subs>>),
        !.arguments = element.arguments]

\* FillOut without line 343: the arguments of the first fragment are kept
FillOut_keeps_arguments(out, element) ==
    [out EXCEPT
        !.doc = PyOr(out.doc, element.doc),
        !.unit = PyOr(out.unit, element.unit),
        !.lims = PyOr(out.lims, element.lims),
        !.eqn = L(out.eqn.v \o <<S(replace_bs(EqnOf(element).v))>>),
        !.py_expr = L(out.py_expr.v \o <<element.py_expr>>),
        !.subs = L(out.subs.v \o <<element.subs>>)]

\* the else branch: a further fragment of a name that is in outs
FillOut(out, element) ==
    [out EXCEPT
        !.doc = PyOr(out.doc, element.doc),
        !.unit = PyOr(out.unit, element.unit),
        !.lims = PyOr(out.lims, element.lims),
        !.eqn = L(out.eqn.v \o <<S(replace_bs(EqnOf(element).v))>>),
        !.py_expr = L(out.py_expr.v \o <<element.py_expr>>),
        !.subs = L(out.subs.v \o <<element.subs>>),
        !.arguments = element.arguments]

\* the fragment is skipped by the test  element['py_expr'] != "None"
IsSentinel(element) == element.py_expr = S(<<"None">>)

\* eqn.replace fails (AttributeError) when eqn is not a str
ReplaceFails(element) == EqnOf(element).t # "str"

\* merge_step without the test of line 313: placeholders are merged too
merge_step_keeps_placeholders(st, element) ==
    IF st.err THEN st
    ELSE IF ReplaceFails(element) THEN [st EXCEPT !.err = TRUE]
    ELSE LET k == IndexOf(st.outs, element.py_name, 1) IN
         IF k = 0
         THEN [st EXCEPT !.outs = Append(st.outs, NewOut(element))]
         ELSE [st EXCEPT !.outs[k] = FillOut(st.outs[k], element)]

\* one iteration of the for loop; err is set when the iteration raises
merge_step(st, element) ==
    IF st.err THEN st
    ELSE IF IsSentinel(element) THEN st
    ELSE IF ReplaceFails(element) THEN [st EXCEPT !.err = TRUE]
    ELSE LET k == IndexOf(st.outs, element.py_name, 1) IN
         IF k = 0
         THEN [st EXCEPT !.outs = Append(st.outs, NewOut(element))]
         ELSE [st EXCEPT !.outs[k] = FillOut(st.outs[k], element)]

RECURSIVE merge_fold(_, _)
merge_fold(st, element_list) ==
    IF element_list = <<>> THEN st
    ELSE merge_fold(merge_step(st, Head(element_list)), Tail(element_list))

\* the whole function: [err, outs]; list(outs.values()) is outs in key order
merge_partial_elements(element_list) ==
    merge_fold([err |-> FALSE, outs |-> <<>>], element_list)

----------------------------------------------------------------------------
(* utils: identifiers and subscripts *)

\* str.lower() on one piece of text
LowerTok(tok) ==
    CASE tok = "X" -> "x"
      [] tok = "Y" -> "y"
      [] tok = "INTERPOLATE" -> "interpolate"
      [] OTHER -> tok

\* utils.make_python_identifier(string)[0] with an empty namespace: the text
\* in lower case (the texts of the model hold no other character it changes)
make_python_identifier(string) == [i \in 1..Len(string) |-> LowerTok(string[i])]

\* the number of the first  identifier + 'ADD_' + str(number)  not in names
RECURSIVE FirstFreeNumber(_, _, _)
FirstFreeNumber(identifier, names, number) ==
    IF (identifier \o <<"ADD_", ToString(number)>>) \in names
    THEN FirstFreeNumber(identifier, names, number + 1)
    ELSE number

\* utils.make_add_identifier(identifier, build_names): a new name with an
\* ADD_# ending that is not in build_names, which it enters in build_names
make_add_identifier(identifier, names) ==
    LET new == identifier \o <<"ADD_", ToString(FirstFreeNumber(identifier, names, 1))>> IN
    [identifier |-> new, build_names |-> names \cup {new}]

\* the subscript dictionary of the model: one family, dim1 = [A, B]
SubscriptFamilies == <<"dim1">>
SubscriptMembers(family) == IF family = "dim1" THEN <<"A", "B">> ELSE <<>>

\* utils.find_subscript_name(subscript_dict, element)
find_subscript_name(sub) ==
    IF \E k \in 1..Len(SubscriptFamilies) : SubscriptFamilies[k] = sub THEN sub
    ELSE LET hits == {k \in 1..Len(SubscriptFamilies) :
                        \E j \in 1..Len(SubscriptMembers(SubscriptFamilies[k])) :
                            SubscriptMembers(SubscriptFamilies[k])[j] = sub} IN
         IF hits = {} THEN "None"
         ELSE SubscriptFamilies[CHOOSE k \in hits : \A h \in hits : k <= h]

\* the pieces of text of the model that contain "ADD"
ADDTexts == {"ADD_"}

\* "ADD" in py_expr
HasADD(py_expr) == \E i \in 1..Len(py_expr.v) : py_expr.v[i] \in ADDTexts

\* the name with its ADD ending left on
SplitADD_whole(name) == name

\* py_name.split("ADD")[0]
SplitADD(name) ==
    LET at == {i \in 1..Len(name) : name[i] \in ADDTexts} IN
    IF at = {} THEN name
    ELSE SubSeq(name, 1, (CHOOSE i \in at : \A k \in at : i <= k) - 1)

\* d[key] = value on an insertion-ordered dict, a sequence of [k, v]
DictPut(d, key, value) ==
    IF \E i \in 1..Len(d) : d[i].k = key
    THEN [i \in 1..Len(d) |-> IF d[i].k = key THEN [k |-> key, v |-> value] ELSE d[i]]
    ELSE Append(d, [k |-> key, v |-> value])

\* utils.make_coord_dict(subs, subscript_dict, terse=False): a member of a
\* family gives family: [member], a family name gives family: its members
RECURSIVE coord_fold(_, _)
coord_fold(d, subs) ==
    IF subs = <<>> THEN d
    ELSE LET sub == Head(subs)
             family == find_subscript_name(sub) IN
         coord_fold(DictPut(d, family,
                            IF family = sub THEN SubscriptMembers(family) ELSE <<sub>>),
                    Tail(subs))

make_coord_dict(subs) == coord_fold(<<>>, subs)

\* repr of a list of texts
RECURSIVE ListItems(_)
ListItems(items) ==
    IF items = <<>> THEN <<>>
    ELSE <<"'", Head(items), "'">> \o (IF Len(items) > 1 THEN <<", ">> ELSE <<>>)
             \o ListItems(Tail(items))

ListText(items) == <<"[">> \o ListItems(items) \o <<"]">>

\* repr of a coordinates dict
RECURSIVE DictItems(_)
DictItems(d) ==
    IF d = <<>> THEN <<>>
    ELSE <<"'", Head(d).k, "': ">> \o ListText(Head(d).v)
             \o (IF Len(d) > 1 THEN <<", ">> ELSE <<>>) \o DictItems(Tail(d))

DictText(d) == <<"{">> \o DictItems(d) \o <<"}">>

\* list(coords): the keys of the dict
DictKeys(d) == [i \in 1..Len(d) |-> d[i].k]

----------------------------------------------------------------------------
(* add_ext_data, add_ext_constant, add_ext_lookup *)

\* the dictionary the three builders return in new_structure
External(name, real, doc, py_expr, subs, kind, arguments) ==
    [py_name |-> name,
     real_name |-> S(real),
     doc |-> S(doc),
     py_expr |-> S(py_expr),
     unit |-> S(<<"None">>),
     lims |-> S(<<"None">>),
     eqn |-> S(<<"None">>),
     expr |-> Absent,
     subs |-> subs,
     kind |-> kind,
     arguments |-> arguments]

\* keyword = "'%s'" % keyword.strip(':').lower() if isinstance(keyword, str)
KeywordText(keyword) ==
    IF keyword.t = "str"
    THEN <<"'">> \o [i \in 1..Len(SelectSeq(keyword.v, LAMBDA c : c # ":")) |->
                        LowerTok(SelectSeq(keyword.v, LAMBDA c : c # ":")[i])] \o <<"'">>
    ELSE <<"None">>

\* add_ext_data without line 784: the canonical name is not registered
data_registry_unregistered(exists, canon, made, bn) ==
    IF exists THEN made.build_names ELSE bn

\* lines 773-784: build_names after add_ext_data chose the name; made is what
\* make_add_identifier returns (it is called when the name exists only)
data_registry(exists, canon, made, bn) ==
    IF exists THEN made.build_names ELSE bn \cup {canon}

\* add_ext_constant without line 857
constant_registry_unregistered(exists, name, made, bn) ==
    IF exists THEN made.build_names ELSE bn

\* lines 843-857: build_names.add(name) comes after either branch
constant_registry(exists, name, made, bn) ==
    (IF exists THEN made.build_names ELSE bn) \cup {name}

\* lines 914-928: build_names.add(name) comes after either branch
lookup_registry(exists, name, made, bn) ==
    (IF exists THEN made.build_names ELSE bn) \cup {name}

\* the reference as a call of the canonical name whatever the element is
data_reference_canonical(external) == S(SplitADD(external.py_name) \o <<"(time())">>)

\* line 803: "%s(time())" % external['py_name']
data_reference(external) == S(external.py_name \o <<"(time())">>)

\* line 872: "%s()" % external['py_name']
constant_reference(external) == S(external.py_name \o <<"()">>)

\* line 943: "%s(x)" % external['py_name']
lookup_reference(external) == S(external.py_name \o <<"(x)">>)

\* add_ext_data: [ref, new_structure, build_names, import_modules]
add_ext_data(identifier, file_name, tab, time_row_or_col, cell, subs, keyword, bn, im) ==
    LET coords == DictText(make_coord_dict(subs.v))
        canon == make_python_identifier(<<"_ext_data_", identifier>>)
        im1 == [im EXCEPT !.external = @ \cup {"ExtData"}]
        exists == canon \in bn
        made == make_add_identifier(canon, bn)
        name == IF exists THEN made.identifier ELSE canon
        bn1 == data_registry(exists, canon, made, bn)
        kind == IF exists THEN "external_add" ELSE "external"
        payload == <<file_name, ", ", tab, ", ", time_row_or_col, ", ", cell, ", ">>
                       \o KeywordText(keyword) \o <<", ">> \o coords
        py_expr == IF exists THEN <<".add(">> \o payload \o <<")">>
                   ELSE <<"ExtData(">> \o payload \o <<", _root, '">> \o canon \o <<"')">>
        external == External(name, <<"External data for ", identifier>>,
                             <<"Provides data for data variable ", identifier>>,
                             py_expr, subs, kind, "") IN
    [ref |-> data_reference(external),
     new_structure |-> <<external>>,
     build_names |-> bn1,
     import_modules |-> im1]

\* add_ext_constant: [ref, new_structure, build_names, import_modules]
add_ext_constant(identifier, file_name, tab, cell, subs, bn, im) ==
    LET im1 == [im EXCEPT !.external = @ \cup {"ExtConstant"}]
        coords == DictText(make_coord_dict(subs.v))
        canon == make_python_identifier(<<"_ext_constant_", identifier>>)
        exists == canon \in bn
        made == make_add_identifier(canon, bn)
        name == IF exists THEN made.identifier ELSE canon
        kind == IF exists THEN "external_add" ELSE "external"
        bn1 == constant_registry(exists, name, made, bn)
        payload == <<file_name, ", ", tab, ", ", cell, ", ">> \o coords
        py_expr == IF exists THEN <<".add(">> \o payload \o <<")">>
                   ELSE <<"ExtConstant(">> \o payload \o <<", _root, '">> \o canon \o <<"')">>
        external == External(name, <<"External constant for ", identifier>>,
                             <<"Provides data for constant data variable ", identifier>>,
                             py_expr, subs, kind, "") IN
    [ref |-> constant_reference(external),
     new_structure |-> <<external>>,
     build_names |-> bn1,
     import_modules |-> im1]

\* add_ext_lookup: [ref, new_structure, build_names, import_modules]
add_ext_lookup(identifier, file_name, tab, x_row_or_col, cell, subs, bn, im) ==
    LET im1 == [im EXCEPT !.external = @ \cup {"ExtLookup"}]
        coords == DictText(make_coord_dict(subs.v))
        canon == make_python_identifier(<<"_ext_lookup_", identifier>>)
        exists == canon \in bn
        made == make_add_identifier(canon, bn)
        name == IF exists THEN made.identifier ELSE canon
        kind == IF exists THEN "external_add" ELSE "external"
        bn1 == lookup_registry(exists, name, made, bn)
        payload == <<file_name, ", ", tab, ", ", x_row_or_col, ", ", cell, ", ">> \o coords
        py_expr == IF exists THEN <<".add(">> \o payload \o <<")">>
                   ELSE <<"ExtLookup(">> \o payload \o <<", _root, '">> \o canon \o <<"')">>
        external == External(name, <<"External lookup data for ", identifier>>,
                             <<"Provides data for external lookup variable ", identifier>>,
                             py_expr, subs, kind, "x") IN
    [ref |-> lookup_reference(external),
     new_structure |-> <<external>>,
     build_names |-> bn1,
     import_modules |-> im1]

----------------------------------------------------------------------------
(* build_element *)

\* the kinds lines 172-182 know
KnownKinds == {"constant", "component", "component_ext_data", "lookup",
               "setup", "stateful", "external", "external_add"}

\* cache_type with a lookup cached like a component
cache_type_lookup_step(kind) ==
    CASE kind = "constant" -> "@cache.run"
      [] kind \in {"component", "component_ext_data", "lookup"} -> "@cache.step"
      [] kind \in {"setup", "stateful", "external", "external_add"} -> ""

\* lines 172-182: the decorator of the kind, for a known kind
cache_type(kind) ==
    CASE kind = "constant" -> "@cache.run"
      [] kind \in {"component", "component_ext_data"} -> "@cache.step"
      [] kind = "lookup" -> ""
      [] kind \in {"setup", "stateful", "external", "external_add"} -> ""

\* separator.join(texts)
RECURSIVE JoinText(_, _)
JoinText(texts, separator) ==
    IF texts = <<>> THEN <<>>
    ELSE Head(texts) \o (IF Len(texts) > 1 THEN separator ELSE <<>>)
             \o JoinText(Tail(texts), separator)

\* 'rearrange(%s, %s, %s)' % (py_expr, dims, coords)
RearrangeText(py_expr, subs) ==
    LET coords == make_coord_dict(subs.v) IN
    <<"rearrange(">> \o py_expr.v \o <<", ">> \o ListText(DictKeys(coords))
        \o <<", ">> \o DictText(coords) \o <<")">>

\* the operands of xrmerge with every fragment without ADD rearranged,
\* whatever follows it
RECURSIVE MergeOperands_all_rearranged(_, _, _, _)
MergeOperands_all_rearranged(py_exprs, subs, no_ADD, i) ==
    IF i > Len(py_exprs) \/ i > Len(subs) THEN <<>>
    ELSE (IF no_ADD[i] THEN <<RearrangeText(py_exprs[i], subs[i])>> ELSE <<>>)
         \o MergeOperands_all_rearranged(py_exprs, subs, no_ADD, i + 1)

\* lines 195-208: the operands of xrmerge from fragment i on; no_ADD is
\* py_expr_no_ADD with True appended
RECURSIVE MergeOperands(_, _, _, _)
MergeOperands(py_exprs, subs, no_ADD, i) ==
    IF i > Len(py_exprs) \/ i > Len(subs) THEN <<>>
    ELSE (IF no_ADD[i] /\ no_ADD[i + 1] THEN <<RearrangeText(py_exprs[i], subs[i])>>
          ELSE IF no_ADD[i] /\ ~no_ADD[i + 1] THEN <<py_exprs[i].v>>
          ELSE <<>>)
         \o MergeOperands(py_exprs, subs, no_ADD, i + 1)

\* element['doc'].replace('\\', '\n').replace('\n', '\n    ')
DocText(doc) ==
    [i \in 1..Len(doc) |-> IF doc[i] \in {"\\", "\n"} THEN "\n    " ELSE doc[i]]

\* lines 264-274: the original equations in the docstring
EqnText(eqn) ==
    LET sep == <<"\n          ">> IN
    IF Len(eqn) = 1 THEN eqn[1].v
    ELSE IF Len(eqn) > 5
         THEN sep \o eqn[1].v \o sep \o <<"  .">> \o sep \o <<"  .">> \o sep \o <<"  .">>
                  \o sep \o eqn[Len(eqn)].v
         ELSE sep \o JoinText([i \in 1..Len(eqn) |-> eqn[i].v], sep)

\* lines 242-243: contents.replace('\n', '\n' + ' ' * indent); the text of
\* the model with a newline in it is the separator of the xrmerge operands
IndentText(text) ==
    [i \in 1..Len(text) |-> IF text[i] = ",\n" THEN ",\n        " ELSE text[i]]

NoFunc == [form |-> "none"]

\* build_element(element, subscript_dict) with import_modules im:
\* [err, func, element, import_modules]; err is "" or the exception raised,
\* element and import_modules are as the call leaves them
build_element(element, im) ==
    IF element.kind \notin KnownKinds
    THEN [err |-> "AttributeError", func |-> NoFunc, element |-> element,
          import_modules |-> im]
    ELSE
    LET cache == cache_type(element.kind)
        py_exprs == element.py_expr.v
        n == Len(py_exprs)
        py_expr_no_ADD == [i \in 1..n |-> ~HasADD(py_exprs[i])]
        merges == Cardinality({i \in 1..n : py_expr_no_ADD[i]}) > 1
        padded == Append(py_expr_no_ADD, TRUE)
        rearranges == merges /\ \E i \in 1..n : padded[i] /\ padded[i + 1]
        py_expr_i == MergeOperands(py_exprs, element.subs.v, padded, 1)
        py_expr == IF merges
                   THEN <<"xrmerge([">> \o JoinText(py_expr_i, <<",\n">>) \o <<",])">>
                   ELSE py_exprs[1].v
        im1 == [im EXCEPT !.utils = @ \cup (IF rearranges THEN {"rearrange"} ELSE {})
                                      \cup (IF merges THEN {"xrmerge"} ELSE {})]
        contents == IndentText(<<"return ">> \o py_expr)
        subs0 == element.subs.v[1]
        has_subs == ~(subs0 = S(<<>>) \/ subs0 = L(<<>>) \/ subs0 = PyNone)
        dims == IF has_subs
                THEN ListText([i \in 1..Len(subs0.v) |-> find_subscript_name(subs0.v[i])])
                ELSE <<>>
        decorated == has_subs /\ element.kind \in {"component", "setup"}
        subs_doc == IF has_subs THEN dims ELSE <<"None">>
        subs_dec == IF decorated THEN <<"@subs(">> \o dims \o <<", _subscript_dict)">>
                    ELSE <<>>
        im2 == [im1 EXCEPT !.subs = IF decorated THEN TRUE ELSE @]
        updated == [k \in {"subs_dec", "subs_doc", "cache", "ulines", "contents"} |->
                      CASE k = "subs_dec" -> S(subs_dec)
                        [] k = "subs_doc" -> S(subs_doc)
                        [] k = "cache" -> S(<<cache>>)
                        [] k = "ulines" -> S([i \in 1..Len(element.real_name.v) |-> "-"])
                        [] k = "contents" -> S(contents)] IN
    IF element.doc.t # "str"
    THEN \* None has no replace: line 247 raises
         [err |-> "AttributeError", func |-> NoFunc, element |-> updated @@ element,
          import_modules |-> im2]
    ELSE
    LET doc == S(DocText(element.doc.v)) IN
    IF element.kind \in {"stateful", "external"}
    THEN [err |-> "",
          func |-> [form |-> "assign", py_name |-> element.py_name,
                    py_expr |-> py_exprs[1].v],
          element |-> updated @@ [element EXCEPT !.doc = doc],
          import_modules |-> im2]
    ELSE IF element.kind = "external_add"
    THEN [err |-> "",
          func |-> [form |-> "add", py_name |-> SplitADD(element.py_name),
                    py_expr |-> py_exprs[1].v],
          element |-> updated @@ [element EXCEPT !.doc = doc],
          import_modules |-> im2]
    ELSE
    LET eqn == S(EqnText(element.eqn.v)) IN
         [err |-> "",
          func |-> [form |-> "def", cache |-> cache, subs_dec |-> subs_dec,
                    py_name |-> element.py_name, arguments |-> element.arguments,
                    real_name |-> element.real_name.v, eqn |-> eqn.v,
                    unit |-> element.unit, lims |-> element.lims,
                    kind |-> element.kind, subs_doc |-> subs_doc,
                    doc |-> doc.v, contents |-> contents],
          element |-> updated @@ [element EXCEPT !.doc = doc, !.eqn = eqn],
          import_modules |-> im2]

\* build_element over the merged elements, each text put before the texts
\* built so far
RECURSIVE build_elements_newest_first(_, _, _)
build_elements_newest_first(merged, functions, im) ==
    IF merged = <<>> THEN [err |-> "", functions |-> functions, import_modules |-> im]
    ELSE LET b == build_element(Head(merged), im) IN
         IF b.err # ""
         THEN [err |-> b.err, functions |-> functions,
               import_modules |-> b.import_modules]
         ELSE build_elements_newest_first(Tail(merged), <<b.func>> \o functions,
                                          b.import_modules)

\* lines 65-66: build_element over the merged elements, in order; stops at the
\* first that raises. [err, functions, import_modules]
RECURSIVE build_elements(_, _, _)
build_elements(merged, functions, im) ==
    IF merged = <<>> THEN [err |-> "", functions |-> functions, import_modules |-> im]
    ELSE LET b == build_element(Head(merged), im) IN
         IF b.err # ""
         THEN [err |-> b.err, functions |-> functions,
               import_modules |-> b.import_modules]
         ELSE build_elements(Tail(merged), Append(functions, b.func), b.import_modules)

----------------------------------------------------------------------------
(* The fragments handed to merge_partial_elements *)

Names == {"a", "b"}

\* The shapes a fragment's fields take. P1..P3 leave one of doc, unit and lims
\* as '', one as None and one filled, in rotation; P4 fills all three; PS is a
\* placeholder fragment (py_expr "None") with every field filled.
Profiles == {"P1", "P2", "P3", "P4", "PS"}

\* the fragment at position i of the list, with every value tagged by i
Fragment(i, n, p) ==
    LET id == ToString(i) IN
    [py_name |-> <<n>>,
     real_name |-> S(<<"Real ", n>>),
     py_expr |-> IF p = "PS" THEN S(<<"None">>) ELSE S(<<"e", id>>),
     subs |-> L(<<"A", id>>),
     doc |-> CASE p = "P1" -> S(<<>>)
               [] p = "P2" -> PyNone
               [] OTHER -> S(<<"doc", id, p>>),
     unit |-> CASE p = "P1" -> PyNone
                [] p = "P3" -> S(<<>>)
                [] OTHER -> S(<<"unit", id, p>>),
     lims |-> CASE p = "P2" -> S(<<>>)
                [] p = "P3" -> PyNone
                [] OTHER -> S(<<"lims", id, p>>),
     \* Xmile fragments carry eqn only; Vensim ones carry expr too
     eqn |-> IF p = "P2" THEN S(<<"q", "\\", " ", "\\", "\\", " ", " ", id>>)
             ELSE S(<<"q", id>>),
     expr |-> IF p \in {"P3", "PS"} THEN S(<<"x", "\\", " ", id>>) ELSE Absent,
     kind |-> IF p = "P2" THEN "constant" ELSE "component",
     arguments |-> IF p \in {"P2", "P4"} THEN "x" ELSE ""]

\* the fragment list of a choice of one name and one profile per position
FragList(c) == [i \in 1..Len(c) |-> Fragment(i, c[i][1], c[i][2])]

----------------------------------------------------------------------------
(* merge_partial_elements as a loop, and a caller that merges in two stages *)

\* one iteration of  for element in element_list
MergeIter ==
    /\ m_pc = "loop"
    /\ m_i < Len(m_input)
    /\ LET st == merge_step([err |-> FALSE, outs |-> m_outs], m_input[m_i + 1]) IN
        /\ m_outs' = st.outs
        /\ m_pc' = IF st.err THEN "error" ELSE "loop"
        /\ m_i' = IF st.err THEN m_i ELSE m_i + 1
    /\ UNCHANGED <<m_input, m_orig, m_stage, m_result>>
    /\ UNCHANGED <<sessionVars, elementVars, constructVars, callVars, processVars>>

\* return list(outs.values())
MergeReturn ==
    /\ m_pc = "loop"
    /\ m_i = Len(m_input)
    /\ m_pc' = "done"
    /\ m_result' = m_outs
    /\ UNCHANGED <<m_input, m_orig, m_i, m_outs, m_stage>>
    /\ UNCHANGED <<sessionVars, elementVars, constructVars, callVars, processVars>>

\* the caller merges the returned records with one more fragment
Remerge ==
    /\ m_pc = "done"
    /\ m_stage = 1
    /\ Len(m_orig) < MaxFrags
    /\ \E n \in Names, p \in Profiles :
        LET A == Fragment(Len(m_orig) + 1, n, p) IN
        /\ m_input' = m_result \o <<A>>
        /\ m_orig' = Append(m_orig, A)
    /\ m_i' = 0
    /\ m_outs' = <<>>
    /\ m_pc' = "loop"
    /\ m_stage' = 2
    /\ m_result' = <<>>
    /\ UNCHANGED <<sessionVars, elementVars, constructVars, callVars, processVars>>

SessionIdle ==
    /\ build_names = {}
    /\ import_modules = ImportInit
    /\ elements = <<>>
    /\ log = <<>>
    /\ last = [op |-> "start", ok |-> TRUE, after_build |-> FALSE, built |-> {}]
    /\ emitted = [imports |-> ImportInit, functions |-> <<>>, given |-> <<>>,
                  requests |-> <<>>, calls |-> <<>>]

ElementIdle ==
    /\ e_given = [element |-> <<>>, imports |-> ImportInit]
    /\ e_element = <<>>
    /\ e_func = NoFunc
    /\ e_pc = "idle"

ConstructIdle ==
    /\ c_call = <<>>
    /\ c_out = <<>>
    /\ c_pc = "idle"

ProcessIdle == p_calls = <<>>

CallIdle ==
    /\ f_call = <<>>
    /\ f_out = <<>>
    /\ f_n = 0

InitMerge ==
    /\ SessionIdle
    /\ ElementIdle
    /\ ConstructIdle
    /\ CallIdle
    /\ ProcessIdle
    /\ \E n \in 0..MaxFrags : \E c \in [1..n -> Names \X Profiles] :
          m_input = FragList(c)
    /\ m_orig = m_input
    /\ m_i = 0
    /\ m_outs = <<>>
    /\ m_pc = "loop"
    /\ m_stage = 1
    /\ m_result = <<>>

NextMerge == MergeIter \/ MergeReturn \/ Remerge

SpecMerge == InitMerge /\ [][NextMerge]_vars

----------------------------------------------------------------------------
(* Claims about merge_partial_elements, checked under SpecMerge *)

\* the merge of the raw fragments has returned
MergedRaw == m_stage = 1 /\ m_pc = "done"

\* positions of the fragments that are not placeholders
Live == {i \in 1..Len(m_orig) : m_orig[i].py_expr # S(<<"None">>)}
LiveOf(name) == {i \in Live : m_orig[i].py_name = name}
FirstLive(name) == CHOOSE i \in LiveOf(name) : \A j \in LiveOf(name) : i <= j

\* the non-placeholder fragments of one name, in input order
FragsOf(name) ==
    SelectSeq(m_orig, LAMBDA f : f.py_expr # S(<<"None">>) /\ f.py_name = name)

Range(seq) == {seq[i] : i \in 1..Len(seq)}

\* C6: merge_partial_elements returns one merged element per py_name that has
\* a fragment whose py_expr is not "None": the names of the output are
\* pairwise distinct, ordered by first non-placeholder occurrence, and every
\* value of every merged element comes from a non-placeholder fragment of
\* that name (a placeholder contributes nothing, and a name with placeholders
\* only is not in the output).
C6_OnePerName ==
    MergedRaw =>
        /\ \A j, k \in 1..Len(m_result) :
              j # k => m_result[j].py_name # m_result[k].py_name
        /\ {m_result[j].py_name : j \in 1..Len(m_result)}
              = {m_orig[i].py_name : i \in Live}
        /\ \A j, k \in 1..Len(m_result) :
              j < k => FirstLive(m_result[j].py_name) < FirstLive(m_result[k].py_name)
        /\ \A j \in 1..Len(m_result) :
              LET r == m_result[j]
                  F == {m_orig[i] : i \in LiveOf(r.py_name)} IN
              /\ r.doc \in {f.doc : f \in F}
              /\ r.unit \in {f.unit : f \in F}
              /\ r.lims \in {f.lims : f \in F}
              /\ r.arguments \in {f.arguments : f \in F}
              /\ r.kind \in {f.kind : f \in F}
              /\ Range(r.py_expr.v) \subseteq {f.py_expr : f \in F}
              /\ Range(r.subs.v) \subseteq {f.subs : f \in F}
              /\ Range(r.eqn.v) \subseteq {S(replace_bs(EqnOf(f).v)) : f \in F}

\* a merge of three fragments: a placeholder whose name has no other fragment,
\* and two names that reach the output
C6_Witness ==
    /\ MergedRaw
    /\ Len(m_orig) = 3
    /\ Len(m_result) = 1
    /\ \E i \in 1..3 : /\ i \notin Live
                       /\ m_orig[i].py_name # m_result[1].py_name
    /\ Cardinality(Live) = 2

\* C7: in every merged element py_expr, subs and eqn have the same length,
\* the number of non-placeholder fragments of that name, and their i-th
\* entries are those of the i-th such fragment.
C7_Aligned ==
    MergedRaw =>
        \A j \in 1..Len(m_result) :
            LET r == m_result[j]
                F == FragsOf(r.py_name) IN
            /\ Len(r.py_expr.v) = Len(F)
            /\ Len(r.subs.v) = Len(F)
            /\ Len(r.eqn.v) = Len(F)
            /\ \A i \in 1..Len(F) :
                /\ r.py_expr.v[i] = F[i].py_expr
                /\ r.subs.v[i] = F[i].subs
                /\ r.eqn.v[i] = S(replace_bs(EqnOf(F[i]).v))

\* two names interleaved, one of them with two fragments around the other
C7_Witness ==
    /\ MergedRaw
    /\ Len(m_orig) = 3
    /\ Live = {1, 2, 3}
    /\ m_orig[1].py_name = m_orig[3].py_name
    /\ m_orig[2].py_name # m_orig[1].py_name
    /\ Len(m_result) = 2
    /\ Len(m_result[1].py_expr.v) = 2

\* the value fill-if-empty leaves for one field of the fragments F
FirstFilled(F, field) ==
    LET filled == {i \in 1..Len(F) : F[i][field].t = "str" /\ F[i][field].v # <<>>} IN
    IF filled = {} THEN F[Len(F)][field]
    ELSE F[CHOOSE i \in filled : \A k \in filled : i <= k][field]

\* C8: doc, unit and lims of a merged element are those of the first
\* non-placeholder fragment of the name that has the field non-empty, and
\* the last fragment's (empty) value when no fragment has.
C8_FirstNonEmpty ==
    MergedRaw =>
        \A j \in 1..Len(m_result) :
            LET r == m_result[j]
                F == FragsOf(r.py_name) IN
            /\ r.doc = FirstFilled(F, "doc")
            /\ r.unit = FirstFilled(F, "unit")
            /\ r.lims = FirstFilled(F, "lims")

\* three fragments of one name: doc is empty in the first and filled with
\* different texts in the other two; unit is empty in all, None coming first
\* and '' last
C8_Witness ==
    /\ MergedRaw
    /\ Len(m_orig) = 3
    /\ Len(m_result) = 1
    /\ Live = {1, 2, 3}
    /\ ~Truthy(m_orig[1].doc) /\ Truthy(m_orig[2].doc) /\ Truthy(m_orig[3].doc)
    /\ m_orig[2].doc # m_orig[3].doc
    /\ m_result[1].doc = m_orig[2].doc
    /\ m_orig[1].unit = PyNone /\ m_orig[2].unit = S(<<>>) /\ m_orig[3].unit = S(<<>>)
    /\ m_result[1].unit = S(<<>>)

\* the fragments are three fragments of one name, none a placeholder
OneNameThree ==
    /\ Len(m_orig) = 3
    /\ Live = {1, 2, 3}
    /\ m_orig[1].py_name = m_orig[2].py_name
    /\ m_orig[2].py_name = m_orig[3].py_name

\* C9 as stated: merging A1 and A2 first and then merging the result with A3
\* gives the record of merging all three at once.
C9_Staged ==
    (m_stage = 2 /\ m_pc # "loop" /\ OneNameThree) =>
        /\ m_pc = "done"
        /\ m_result = merge_partial_elements(m_orig).outs

\* C9 amended: the merge is a left fold. The record of [A1, A2, A3] is the
\* record of [A1, A2] with A3 applied: its lists are those of [A1, A2]
\* followed by A3's entry, each of doc, unit and lims is that of [A1, A2] when
\* non-empty and A3's otherwise, and arguments is A3's; applying A3 a second
\* time changes none of doc, unit and lims. The records returned for [A1, A2]
\* are not fragments: merging them with A3 raises AttributeError.
C9_LeftFold ==
    /\ (MergedRaw /\ OneNameThree) =>
        LET P == merge_partial_elements(SubSeq(m_orig, 1, 2)).outs[1]
            A3 == m_orig[3]
            R == m_result[1]
            again == FillOut(R, A3) IN
        /\ Len(m_result) = 1
        /\ R.py_expr.v = P.py_expr.v \o <<A3.py_expr>>
        /\ R.subs.v = P.subs.v \o <<A3.subs>>
        /\ R.eqn.v = P.eqn.v \o <<S(replace_bs(EqnOf(A3).v))>>
        /\ R.doc = (IF P.doc.t = "str" /\ P.doc.v # <<>> THEN P.doc ELSE A3.doc)
        /\ R.unit = (IF P.unit.t = "str" /\ P.unit.v # <<>> THEN P.unit ELSE A3.unit)
        /\ R.lims = (IF P.lims.t = "str" /\ P.lims.v # <<>> THEN P.lims ELSE A3.lims)
        /\ R.arguments = A3.arguments
        /\ again.doc = R.doc /\ again.unit = R.unit /\ again.lims = R.lims
    /\ (m_stage = 2 /\ m_pc # "loop" /\ OneNameThree) => m_pc = "error"

\* three fragments of one name merged at once, A3 bringing a doc that the
\* first two already have; and the staged merge of the same fragments
C9_Witness ==
    /\ MergedRaw
    /\ OneNameThree
    /\ Truthy(m_orig[2].doc) /\ Truthy(m_orig[3].doc)
    /\ ~Truthy(m_orig[1].unit) /\ ~Truthy(m_orig[2].unit)

----------------------------------------------------------------------------
(* A translation session: builder calls of the translator, then build *)

\* identifiers the translator asks external objects for
Idents == {"x", "Y"}

\* what the k-th request since the reset brings besides the identifier:
\* the cell, the subscripts and the keyword, different from one request to
\* the next
PayloadOf(k) ==
    [cell |-> ToString(k),
     subs |-> CASE k % 3 = 1 -> L(<<"A">>)
                [] k % 3 = 2 -> L(<<"B">>)
                [] OTHER -> L(<<"dim1">>),
     keyword |-> IF k % 2 = 1 THEN S(<<":", "INTERPOLATE", ":">>) ELSE PyNone]

Variants == {"data", "constant", "lookup"}

\* the call of one of the three builders
ExtCall(variant, identifier, pay, bn, im) ==
    CASE variant = "data" ->
            add_ext_data(identifier, "'data.xlsx'", "'Sheet1'", "'3'", pay.cell,
                         pay.subs, pay.keyword, bn, im)
      [] variant = "constant" ->
            add_ext_constant(identifier, "'data.xlsx'", "'Sheet1'", pay.cell,
                             pay.subs, bn, im)
      [] variant = "lookup" ->
            add_ext_lookup(identifier, "'data.xlsx'", "'Sheet1'", "'3'", pay.cell,
                           pay.subs, bn, im)

NoEmitted == [imports |-> ImportInit, functions |-> <<>>, given |-> <<>>,
              requests |-> <<>>, calls |-> <<>>]

\* the translator calls a builder and keeps the returned structure
AddExt(variant) ==
    /\ Len(log) < MaxRequests
    /\ Len(elements) < MaxElems
    /\ \E identifier \in Idents :
        \E r \in {ExtCall(variant, identifier, PayloadOf(Len(log) + 1),
                          build_names, import_modules)} :
        LET e == r.new_structure[1]
            req == [variant |-> variant, identifier |-> identifier, kind |-> e.kind,
                    py_name |-> e.py_name, ref |-> r.ref, py_expr |-> e.py_expr] IN
        /\ build_names' = r.build_names
        /\ import_modules' = r.import_modules
        /\ elements' = elements \o r.new_structure
        /\ log' = Append(log, req)
    /\ last' = [op |-> "add_ext", ok |-> TRUE,
                after_build |-> last.op = "build" /\ last.ok,
                built |-> IF last.op = "build" /\ last.ok THEN last.built ELSE {}]
    /\ emitted' = NoEmitted
    /\ UNCHANGED <<mergeVars, elementVars, constructVars, callVars, processVars>>

AddExtData == AddExt("data")
AddExtConstant == AddExt("constant")
AddExtLookup == AddExt("lookup")

\* an element of the model itself, as the translator hands it over: a
\* fragment of the variable v
ModelElement(kind, subs, py_expr) ==
    [py_name |-> <<"v">>,
     real_name |-> S(<<"V">>),
     doc |-> S(<<"a variable">>),
     py_expr |-> py_expr,
     unit |-> S(<<"m">>),
     lims |-> S(<<"(None, None)">>),
     eqn |-> S(<<"V = ...">>),
     expr |-> Absent,
     subs |-> subs,
     kind |-> kind,
     arguments |-> ""]

\* the translator adds a fragment of v: of kind component, its expression the
\* reference the request just made returned, or a number; or of a kind
\* build_element does not know
AddElement ==
    /\ Len(elements) < MaxElems
    /\ \E kind \in {"component", "flow"} :
        elements' = Append(elements,
            ModelElement(kind,
                         IF Len(elements) % 2 = 0 THEN L(<<"A">>) ELSE L(<<"B">>),
                         IF kind = "component" /\ last.op = "add_ext"
                         THEN log[Len(log)].ref ELSE S(<<"1">>)))
    /\ last' = [op |-> "add_element", ok |-> TRUE, after_build |-> FALSE, built |-> {}]
    /\ emitted' = NoEmitted
    /\ UNCHANGED <<build_names, import_modules, log>>
    /\ UNCHANGED <<mergeVars, elementVars, constructVars, callVars, processVars>>

\* line 136: build_names.clear(), forgotten
reset_names_kept(bn) == bn

\* line 136: build_names.clear()
reset_names(bn) == {}

\* lines 137-140: the flags back to False, the sets cleared
reset_imports(im) ==
    [numpy |-> FALSE, xarray |-> FALSE, subs |-> FALSE,
     functions |-> {}, external |-> {}, utils |-> {}]

\* build(elements, subscript_dict, namespace, outfile_name): merges, builds
\* every element, assembles the text with the import lines the registry asks
\* for, resets the registries and returns. An exception of build_element
\* leaves before the reset.
Build ==
    /\ last.op # "build"
    /\ \E b \in {build_elements(merge_partial_elements(elements).outs, <<>>,
                                 import_modules)} :
        IF b.err # ""
        THEN /\ import_modules' = b.import_modules
             /\ UNCHANGED <<build_names, log>>
             /\ emitted' = NoEmitted
             /\ last' = [op |-> "build", ok |-> FALSE, after_build |-> FALSE, built |-> {}]
        ELSE /\ emitted' = [imports |-> b.import_modules, functions |-> b.functions,
                             given |-> elements, requests |-> log,
                             calls |-> p_calls]
             /\ build_names' = reset_names(build_names)
             /\ import_modules' = reset_imports(b.import_modules)
             /\ log' = <<>>
             /\ last' = [op |-> "build", ok |-> TRUE, after_build |-> FALSE,
                         built |-> {b.functions[i].py_name : i \in
                                      {k \in 1..Len(b.functions) :
                                          b.functions[k].form = "assign"}}]
    /\ elements' = <<>>
    /\ UNCHANGED <<mergeVars, elementVars, constructVars, callVars, processVars>>

\* the translation of a model is given up before build is called (the
\* translator raised): its element list is dropped, nothing else happens
Abandon ==
    /\ elements # <<>>
    /\ elements' = <<>>
    /\ last' = [op |-> "abandon", ok |-> FALSE, after_build |-> FALSE, built |-> {}]
    /\ emitted' = NoEmitted
    /\ UNCHANGED <<build_names, import_modules, log>>
    /\ UNCHANGED <<mergeVars, elementVars, constructVars, callVars, processVars>>

MergeIdle ==
    /\ m_input = <<>>
    /\ m_orig = <<>>
    /\ m_i = 0
    /\ m_outs = <<>>
    /\ m_pc = "idle"
    /\ m_stage = 0
    /\ m_result = <<>>

Init == SessionIdle /\ MergeIdle /\ ElementIdle /\ ConstructIdle /\ CallIdle /\ ProcessIdle

Next ==
    \/ AddExtData
    \/ AddExtConstant
    \/ AddExtLookup
    \/ AddElement
    \/ Build
    \/ Abandon

Spec == Init /\ [][Next]_vars

----------------------------------------------------------------------------
(* Claims about the external builders and the registries, checked under Spec *)

\* the name the builder of a variant computes from the identifier
Canonical(variant, identifier) ==
    make_python_identifier(
        <<CASE variant = "data" -> "_ext_data_"
            [] variant = "constant" -> "_ext_constant_"
            [] variant = "lookup" -> "_ext_lookup_",
          identifier>>)

\* the requests of one variant for one identifier since the last reset
RequestsOf(variant, identifier) ==
    {i \in 1..Len(log) : log[i].variant = variant /\ log[i].identifier = identifier}

\* C1: of the requests of one variant with one identifier made since the
\* registry was last empty, the first returns a kind 'external' element and
\* every other one a kind 'external_add' element.
C1_OneExternal ==
    \A variant \in Variants, identifier \in Idents :
        LET P == RequestsOf(variant, identifier) IN
        \A i \in P :
            log[i].kind = IF \A k \in P : i <= k THEN "external" ELSE "external_add"

\* three requests of one variant with one identifier
C1_Witness ==
    /\ Len(log) = 3
    /\ \E variant \in Variants, identifier \in Idents :
        RequestsOf(variant, identifier) = {1, 2, 3}
    /\ log[1].kind = "external"
    /\ log[3].kind = "external_add"

\* C2: the py_name values of the elements the requests returned since the
\* last reset are pairwise distinct, no 'external_add' name is a canonical
\* name, and every one of them is in build_names.
C2_DistinctNames ==
    /\ \A i, j \in 1..Len(log) : i # j => log[i].py_name # log[j].py_name
    /\ \A i \in 1..Len(log) :
        /\ log[i].py_name \in build_names
        /\ log[i].kind = "external_add" =>
              \A variant \in Variants, identifier \in Idents :
                  log[i].py_name # Canonical(variant, identifier)

\* one 'external' and two 'external_add' elements of one identifier, and
\* their three names registered
C2_Witness ==
    /\ Len(log) = 3
    /\ \E variant \in Variants, identifier \in Idents :
        RequestsOf(variant, identifier) = {1, 2, 3}
    /\ log[2].kind = "external_add"
    /\ log[3].kind = "external_add"
    /\ Cardinality({log[1].py_name, log[2].py_name, log[3].py_name}) = 3
    /\ {log[1].py_name, log[2].py_name, log[3].py_name} \subseteq build_names

\* the call a variant's reference makes
CallOf(variant) ==
    CASE variant = "data" -> <<"(time())">>
      [] variant = "constant" -> <<"()">>
      [] variant = "lookup" -> <<"(x)">>

C4_ResetAfterBuild ==
    /\ (last.op = "build" /\ last.ok) =>
          /\ build_names = {}
          /\ import_modules = ImportInit
    /\ (last.op = "add_ext" /\ last.after_build) =>
          /\ Len(log) = 1
          /\ log[1].kind = "external"
          /\ log[1].py_name = Canonical(log[1].variant, log[1].identifier)
          /\ build_names = {log[1].py_name}

\* the request after a build that returned, for a name that build had built
C4_Witness ==
    /\ last.op = "add_ext"
    /\ last.after_build
    /\ log[1].py_name \in last.built
    /\ log[1].kind = "external"

\* C5: when the translation of a model starts (no element of it exists yet)
\* the registries hold nothing an earlier model registered, whether the
\* earlier model was built, failed in build or was given up.
C5_NoLeak ==
    elements = <<>> =>
        /\ build_names = {}
        /\ import_modules = ImportInit

----------------------------------------------------------------------------
(* build_element called on one merged element *)

\* kinds an element may carry: the eight of lines 172-182 and others
ElementKinds == KnownKinds \cup {"flow", "Constant", ""}

\* a merged element of the kind with one fragment per entry of shapes: a
\* "value" fragment holds an expression of the model, an "append" fragment the
\* reference an 'external_add' request returned; subscripted or not
MergedElement(kind, shapes, subscripted) ==
    [py_name |-> IF kind = "external_add" THEN <<"_ext_data_", "x", "ADD_", "1">>
                 ELSE IF kind = "external" THEN <<"_ext_data_", "x">>
                 ELSE <<"v">>,
     real_name |-> S(<<"V">>),
     doc |-> S(<<"first line", "\\", "second line">>),
     py_expr |-> L([i \in 1..Len(shapes) |->
                      IF shapes[i] = "append"
                      THEN S(<<"_ext_data_", "x", "ADD_", ToString(i), "(time())">>)
                      ELSE S(<<"e", ToString(i)>>)]),
     unit |-> S(<<"m">>),
     subs |-> L([i \in 1..Len(shapes) |->
                      IF ~subscripted THEN S(<<>>)
                      ELSE IF i % 2 = 1 THEN L(<<"A">>) ELSE L(<<"B">>)]),
     lims |-> S(<<"(None, None)">>),
     eqn |-> L([i \in 1..Len(shapes) |-> S(<<"q", ToString(i)>>)]),
     expr |-> Absent,
     kind |-> kind,
     arguments |-> IF kind = "lookup" THEN "x" ELSE ""]

MergedElements ==
    UNION { { MergedElement(kind, shapes, subscripted) :
                kind \in ElementKinds,
                shapes \in [1..n -> {"value", "append"}],
                subscripted \in BOOLEAN } : n \in 1..MaxFrags }

\* import_modules when build_element is called: as set up, or after builders
ImportsAtCall ==
    {ImportInit,
     [ImportInit EXCEPT !.numpy = TRUE, !.functions = {"Integ"}, !.external = {"ExtData"}]}

BuildElementCall ==
    /\ e_pc = "call"
    /\ LET r == build_element(e_element, import_modules) IN
        /\ e_pc' = IF r.err = "" THEN "returned" ELSE "raised"
        /\ e_element' = r.element
        /\ e_func' = r.func
        /\ import_modules' = r.import_modules
    /\ UNCHANGED <<build_names, elements, log, last, emitted, e_given>>
    /\ UNCHANGED <<mergeVars, constructVars, callVars, processVars>>

InitElement ==
    /\ build_names = {}
    /\ elements = <<>>
    /\ log = <<>>
    /\ last = [op |-> "start", ok |-> TRUE, after_build |-> FALSE, built |-> {}]
    /\ emitted = NoEmitted
    /\ MergeIdle
    /\ ConstructIdle
    /\ CallIdle
    /\ ProcessIdle
    /\ e_element \in MergedElements
    /\ import_modules \in ImportsAtCall
    /\ e_given = [element |-> e_element, imports |-> import_modules]
    /\ e_func = NoFunc
    /\ e_pc = "call"

NextElement == BuildElementCall

SpecElement == InitElement /\ [][NextElement]_vars

\* the decorator the policy table gives a kind
PolicyOf(kind) ==
    CASE kind = "constant" -> "@cache.run"
      [] kind \in {"component", "component_ext_data"} -> "@cache.step"
      [] kind \in {"lookup", "setup", "stateful", "external", "external_add"} -> ""
      [] OTHER -> "none"

\* C10: build_element gives a constant @cache.run, a component or
\* component_ext_data @cache.step, and a lookup, setup, stateful, external or
\* external_add no decorator; for any other kind it raises, returns nothing
\* and leaves the element and import_modules as they were.
C10_PolicyTotal ==
    /\ e_pc = "returned" =>
          /\ PolicyOf(e_given.element.kind) # "none"
          /\ e_element.cache = S(<<PolicyOf(e_given.element.kind)>>)
          /\ e_func.form = "def" => e_func.cache = PolicyOf(e_given.element.kind)
    /\ e_pc = "raised" =>
          /\ PolicyOf(e_given.element.kind) = "none"
          /\ e_func = NoFunc
          /\ e_element = e_given.element
          /\ import_modules = e_given.imports

\* build_element has raised for an element of an unknown kind with two value
\* fragments and subscripts, called with a registry that held entries
C10_Witness ==
    /\ e_pc = "raised"
    /\ e_given.element.kind = "flow"
    /\ Len(e_given.element.py_expr.v) = 2
    /\ ~HasADD(e_given.element.py_expr.v[1]) /\ ~HasADD(e_given.element.py_expr.v[2])
    /\ e_given.element.subs.v[1] = L(<<"A">>)
    /\ e_given.imports.numpy

----------------------------------------------------------------------------
(* Claims about the expression build_element builds, checked under SpecElement *)

\* the fragments of the element without "ADD" in their expression, in order
ValueIndexes(element) ==
    SelectSeq([i \in 1..Len(element.py_expr.v) |-> i],
              LAMBDA i : ~HasADD(element.py_expr.v[i]))

\* what a value fragment contributes: rearranged when it is the last fragment
\* or a value fragment follows it, as it is when an append fragment follows it
OperandOf(element, i) ==
    IF i = Len(element.py_expr.v) \/ ~HasADD(element.py_expr.v[i + 1])
    THEN RearrangeText(element.py_expr.v[i], element.subs.v[i])
    ELSE element.py_expr.v[i].v

\* C11: for an element with two or more value fragments the expression
\* build_element builds is xrmerge of one operand per value fragment, in the
\* order of the fragments and with no append fragment among them; the operand
\* is rearrange(fragment, dims, coords of its subs) when the fragment is the
\* last one or is followed by a value fragment, and the fragment itself when
\* an append fragment follows it.
C11_MergeOfValues ==
    (e_pc = "returned" /\ Len(ValueIndexes(e_given.element)) >= 2) =>
        LET g == e_given.element
            idx == ValueIndexes(g)
            operands == [k \in 1..Len(idx) |-> OperandOf(g, idx[k])] IN
        /\ e_element.contents =
              S(IndentText(<<"return ", "xrmerge([">> \o JoinText(operands, <<",\n">>)
                             \o <<",])">>))
        /\ e_func.form = "def" => e_func.contents = e_element.contents.v
        /\ "xrmerge" \in import_modules.utils

\* a subscripted component of three fragments, value, append, value: the first
\* is passed as it is, the third rearranged
C11_Witness ==
    /\ e_pc = "returned"
    /\ e_given.element.kind = "component"
    /\ Len(e_given.element.py_expr.v) = 3
    /\ ValueIndexes(e_given.element) = <<1, 3>>
    /\ e_given.element.subs.v[1] = L(<<"A">>)
    /\ e_element.contents =
          S(<<"return ", "xrmerge([", "e", "1", ",\n        ">>
              \o RearrangeText(e_given.element.py_expr.v[3], e_given.element.subs.v[3])
              \o <<",])">>)

\* C20: for an element with exactly one value fragment, wherever it stands
\* among the append fragments, the expression build_element builds is that
\* fragment's expression as it is.
C20_SingleValueRaw ==
    (e_pc = "returned" /\ Len(ValueIndexes(e_given.element)) = 1) =>
        e_element.contents =
            S(<<"return ">>
                \o e_given.element.py_expr.v[ValueIndexes(e_given.element)[1]].v)

----------------------------------------------------------------------------
(* Claims about the text build emits, checked under Spec *)

\* C17: for every kind 'external_add' element handed to a build that returns,
\* the statement emitted is  <canonical name>.add(...) : it is applied to the
\* canonical name of the request's variant and identifier, not to the
\* element's own ADD-suffixed name, and what follows the name is the
\* element's expression, the .add call with the cell of that request only.
C17_AddTargetsCanonical ==
    (last.op = "build" /\ last.ok) =>
        \A k \in 1..Len(emitted.given) :
            emitted.given[k].kind = "external_add" =>
                \E i \in 1..Len(emitted.requests), j \in 1..Len(emitted.functions) :
                    LET q == emitted.requests[i]
                        f == emitted.functions[j] IN
                    /\ q.py_name = emitted.given[k].py_name
                    /\ f.form = "add"
                    /\ f.py_name = Canonical(q.variant, q.identifier)
                    /\ f.py_name # q.py_name
                    /\ f.py_expr = emitted.given[k].py_expr.v
                    /\ f.py_expr[1] = ".add("
                    /\ \A n \in 1..Len(emitted.requests) :
                          (\E t \in 1..Len(f.py_expr) : f.py_expr[t] = PayloadOf(n).cell)
                              <=> n = i

\* a build that returned, given the 'external' element of x and two
\* 'external_add' elements of it: two .add statements on _ext_data_x
C17_Witness ==
    /\ last.op = "build" /\ last.ok
    /\ Len(emitted.given) = 3
    /\ emitted.given[2].kind = "external_add"
    /\ emitted.given[3].kind = "external_add"
    /\ emitted.given[3].py_name = <<"_ext_data_", "x", "ADD_", "2">>
    /\ Len(emitted.functions) = 3
    /\ emitted.functions[1].form = "assign"
    /\ emitted.functions[2].form = "add"
    /\ emitted.functions[3].form = "add"
    /\ emitted.functions[3].py_name = <<"_ext_data_", "x">>

----------------------------------------------------------------------------
(* add_stock, add_n_delay, add_n_smooth, add_n_trend *)

\* an element a builder makes for a part of a subscripted construct
Implicit(name, kind, py_expr, subs, doc, identifier) ==
    [py_name |-> name,
     real_name |-> S(<<"Implicit">>),
     kind |-> kind,
     py_expr |-> S(py_expr),
     subs |-> L(subs),
     doc |-> S(<<doc, identifier, " function">>),
     unit |-> S(<<"See docs for ", identifier>>),
     lims |-> S(<<"None">>),
     eqn |-> S(<<"None">>),
     expr |-> Absent,
     arguments |-> ""]

\* the element of the stateful object itself
Stateful(name, real, doc, py_expr) ==
    [py_name |-> name,
     real_name |-> S(real),
     doc |-> S(doc),
     py_expr |-> S(py_expr),
     unit |-> S(<<"None">>),
     lims |-> S(<<"None">>),
     eqn |-> S(<<"None">>),
     expr |-> Absent,
     subs |-> S(<<>>),
     kind |-> "stateful",
     arguments |-> ""]

\* the Integ expression made of the operands themselves, subscripts or not
stock_py_expr_raw(identifier, expression, initial_condition, subs) ==
    <<"Integ(lambda: ">> \o expression \o <<", lambda: ">> \o initial_condition
        \o <<")">>

\* lines 388-393: stateful_py_expr of add_stock
stock_py_expr(identifier, expression, initial_condition, subs) ==
    IF Len(subs) = 0
    THEN <<"Integ(lambda: ">> \o expression \o <<", lambda: ">> \o initial_condition
             \o <<")">>
    ELSE <<"Integ(lambda: ", "_d", identifier, "_dt", "(), lambda: ",
           "_init_", identifier, "())">>

\* add_stock: [err, ref, new_structure, import_modules]
add_stock(identifier, expression, initial_condition, subs, im) ==
    LET im1 == [im EXCEPT !.functions = @ \cup {"Integ"}]
        stateful_py_expr == stock_py_expr(identifier, expression, initial_condition, subs)
        implicit ==
            IF Len(subs) = 0 THEN <<>>
            ELSE <<Implicit(<<"_init_", identifier>>, "setup", initial_condition, subs,
                            "Provides initial conditions for ", identifier),
                   Implicit(<<"_d", identifier, "_dt">>, "component", expression, subs,
                            "Provides derivative for ", identifier)>>
        stateful == Stateful(<<"_integ_", identifier>>,
                             <<"Representation of  ", identifier>>,
                             <<"Integrates Expression ">> \o expression,
                             stateful_py_expr) IN
    [err |-> "",
     ref |-> S(stateful.py_name \o <<"()">>),
     new_structure |-> Append(implicit, stateful),
     import_modules |-> im1]

\* the elements add_n_delay makes for a subscripted delay, without the one
\* of the delay time
delay_implicit_no_deltime(identifier, delay_input, delay_time, initial_value, subs) ==
    IF Len(subs) = 0 THEN <<>>
    ELSE <<Implicit(<<"_init_", identifier>>, "setup", initial_value, subs,
                    "Provides initial conditions for ", identifier),
           Implicit(<<"_delinput_", identifier>>, "component", delay_input, subs,
                    "Provides input for ", identifier)>>

\* lines 509-546: the elements add_n_delay makes for a subscripted delay
delay_implicit(identifier, delay_input, delay_time, initial_value, subs) ==
    IF Len(subs) = 0 THEN <<>>
    ELSE <<Implicit(<<"_init_", identifier>>, "setup", initial_value, subs,
                    "Provides initial conditions for ", identifier),
           Implicit(<<"_deltime_", identifier>>, "component", delay_time, subs,
                    "Provides delay time for ", identifier),
           Implicit(<<"_delinput_", identifier>>, "component", delay_input, subs,
                    "Provides input for ", identifier)>>

\* add_n_delay: [err, ref, new_structure, import_modules]; order is put in
\* the expression as it is given
add_n_delay(identifier, delay_input, delay_time, initial_value, order, subs, im) ==
    LET im1 == [im EXCEPT !.functions = @ \cup {"Delay"}]
        stateful_py_expr ==
            IF Len(subs) = 0
            THEN <<"Delay(lambda: ">> \o delay_input \o <<", lambda: ">> \o delay_time
                     \o <<",lambda: ">> \o initial_value \o <<", lambda: ">> \o order
                     \o <<")">>
            ELSE <<"Delay(lambda: ", "_delinput_", identifier, "(),lambda: ",
                   "_deltime_", identifier, "(), lambda: ", "_init_", identifier,
                   "(),lambda: ">> \o order \o <<")">>
        stateful == Stateful(<<"_delay_", identifier>>,
                             <<"Delay of ">> \o delay_input,
                             <<"Delay time: ">> \o delay_time
                                 \o <<" \n Delay initial value ">> \o initial_value
                                 \o <<" \n Delay order ">> \o order,
                             stateful_py_expr) IN
    [err |-> "",
     ref |-> S(stateful.py_name \o <<"()">>),
     new_structure |-> Append(delay_implicit(identifier, delay_input, delay_time,
                                             initial_value, subs), stateful),
     import_modules |-> im1]

\* add_n_smooth: [err, ref, new_structure, import_modules]
add_n_smooth(identifier, smooth_input, smooth_time, initial_value, order, subs, im) ==
    LET im1 == [im EXCEPT !.functions = @ \cup {"Smooth"}]
        stateful == Stateful(<<"_smooth_", identifier>>,
                             <<"Smooth of ">> \o smooth_input,
                             <<"Smooth time: ">> \o smooth_time
                                 \o <<" \n Smooth initial value ">> \o initial_value
                                 \o <<" \n Smooth order ">> \o order,
                             <<"Smooth(lambda: ">> \o smooth_input \o <<", lambda: ">>
                                 \o smooth_time \o <<", lambda: ">> \o initial_value
                                 \o <<", lambda: ">> \o order \o <<")">>) IN
    [err |-> "",
     ref |-> S(stateful.py_name \o <<"()">>),
     new_structure |-> <<stateful>>,
     import_modules |-> im1]

\* add_n_trend: [err, ref, new_structure, import_modules]
add_n_trend(identifier, trend_input, average_time, initial_trend, subs, im) ==
    LET im1 == [im EXCEPT !.functions = @ \cup {"Trend"}]
        stateful == Stateful(<<"_trend_", identifier>>,
                             <<"trend of ">> \o trend_input,
                             <<"Trend average time: ">> \o average_time
                                 \o <<" \n Trend initial value ">> \o initial_trend,
                             <<"Trend(lambda: ">> \o trend_input \o <<", lambda: ">>
                                 \o average_time \o <<", lambda: ">> \o initial_trend
                                 \o <<")">>) IN
    [err |-> "",
     ref |-> S(stateful.py_name \o <<"()">>),
     new_structure |-> <<stateful>>,
     import_modules |-> im1]

----------------------------------------------------------------------------
(* One call of a construct builder *)

\* the subs lists a builder is called with: none, or up to maxLen subscripts
SubsLists(maxLen) == UNION {[1..n -> {"A", "B"}] : n \in 0..maxLen}

\* translated operand expressions: a call of a model element, a formula
Operands == {<<"inflow()">>, <<"rate()", "*", "2">>}

\* translated order expressions: a number, a call of a model element
Orders == {<<"3">>, <<"order_var()">>}

ConstructIdents == {"x", "y"}

StockCalls ==
    {[builder |-> "stock", identifier |-> id, expression |-> e,
      initial_condition |-> <<"0">>, subs |-> sb] :
        id \in ConstructIdents, e \in Operands, sb \in SubsLists(MaxSubs)}

DelayCalls ==
    {[builder |-> "delay", identifier |-> id, delay_input |-> e,
      delay_time |-> <<"dt()">>, initial_value |-> <<"0">>, order |-> o, subs |-> sb] :
        id \in ConstructIdents, e \in Operands, o \in Orders,
        sb \in SubsLists(MaxSubs)}

SmoothCalls ==
    {[builder |-> "smooth", identifier |-> id, smooth_input |-> e,
      smooth_time |-> <<"dt()">>, initial_value |-> <<"0">>, order |-> o, subs |-> sb] :
        id \in ConstructIdents, e \in Operands, o \in Orders,
        sb \in SubsLists(MaxSubs)}

TrendCalls ==
    {[builder |-> "trend", identifier |-> id, trend_input |-> e,
      average_time |-> <<"dt()">>, initial_trend |-> <<"0">>, subs |-> sb] :
        id \in ConstructIdents, e \in Operands, sb \in SubsLists(MaxSubs)}

\* what a call leaves behind for the caller
Returned(r) == [err |-> r.err, ref |-> r.ref, new_structure |-> r.new_structure]

ConstructFrame ==
    /\ UNCHANGED <<build_names, elements, log, last, emitted, c_call>>
    /\ UNCHANGED <<mergeVars, elementVars, callVars, processVars>>

CallStock ==
    /\ c_pc = "call"
    /\ c_call.builder = "stock"
    /\ LET r == add_stock(c_call.identifier, c_call.expression,
                          c_call.initial_condition, c_call.subs, import_modules) IN
        /\ c_out' = Returned(r)
        /\ c_pc' = IF r.err = "" THEN "returned" ELSE "raised"
        /\ import_modules' = r.import_modules
    /\ ConstructFrame

CallDelay ==
    /\ c_pc = "call"
    /\ c_call.builder = "delay"
    /\ LET r == add_n_delay(c_call.identifier, c_call.delay_input, c_call.delay_time,
                            c_call.initial_value, c_call.order, c_call.subs,
                            import_modules) IN
        /\ c_out' = Returned(r)
        /\ c_pc' = IF r.err = "" THEN "returned" ELSE "raised"
        /\ import_modules' = r.import_modules
    /\ ConstructFrame

CallSmooth ==
    /\ c_pc = "call"
    /\ c_call.builder = "smooth"
    /\ LET r == add_n_smooth(c_call.identifier, c_call.smooth_input, c_call.smooth_time,
                             c_call.initial_value, c_call.order, c_call.subs,
                             import_modules) IN
        /\ c_out' = Returned(r)
        /\ c_pc' = IF r.err = "" THEN "returned" ELSE "raised"
        /\ import_modules' = r.import_modules
    /\ ConstructFrame

CallTrend ==
    /\ c_pc = "call"
    /\ c_call.builder = "trend"
    /\ LET r == add_n_trend(c_call.identifier, c_call.trend_input, c_call.average_time,
                            c_call.initial_trend, c_call.subs, import_modules) IN
        /\ c_out' = Returned(r)
        /\ c_pc' = IF r.err = "" THEN "returned" ELSE "raised"
        /\ import_modules' = r.import_modules
    /\ ConstructFrame

InitConstruct ==
    /\ build_names = {}
    /\ elements = <<>>
    /\ log = <<>>
    /\ last = [op |-> "start", ok |-> TRUE, after_build |-> FALSE, built |-> {}]
    /\ emitted = NoEmitted
    /\ MergeIdle
    /\ ElementIdle
    /\ CallIdle
    /\ ProcessIdle
    /\ import_modules \in ImportsAtCall
    /\ c_call \in StockCalls \cup DelayCalls \cup SmoothCalls \cup TrendCalls
    /\ c_out = <<>>
    /\ c_pc = "call"

NextConstruct == CallStock \/ CallDelay \/ CallSmooth \/ CallTrend

SpecConstruct == InitConstruct /\ [][NextConstruct]_vars

----------------------------------------------------------------------------
(* Claims about the construct builders, checked under SpecConstruct *)

\* some piece of the operand expression stands in the text
Mentions(text, operand) ==
    \E i \in 1..Len(text), k \in 1..Len(operand) : text[i] = operand[k]

\* name followed by "(" stands in the text: the text calls the name
Calls(text, name) ==
    \E i \in 1..(Len(text) - Len(name)) :
        /\ SubSeq(text, i, i + Len(name) - 1) = name
        /\ text[i + Len(name)] \in {"()", "(), lambda: ", "(),lambda: ", "())"}

\* C12: add_stock without subscripts returns one element, the stateful
\* _integ_<id> whose expression is Integ of the derivative and initial-value
\* expressions themselves; with subscripts it returns three: the setup
\* _init_<id> holding the initial value, the component _d<id>_dt holding the
\* derivative, and the stateful _integ_<id> whose expression calls those two
\* by name and holds neither operand. The reference is a call of _integ_<id>.
C12_StockElements ==
    (c_pc # "call" /\ c_call.builder = "stock") =>
        LET id == c_call.identifier
            n == c_out.new_structure
            w == n[Len(n)] IN
        /\ c_pc = "returned"
        /\ w.py_name = <<"_integ_", id>>
        /\ w.kind = "stateful"
        /\ c_out.ref = S(w.py_name \o <<"()">>)
        /\ c_call.subs = <<>> =>
              /\ Len(n) = 1
              /\ w.py_expr = S(<<"Integ(lambda: ">> \o c_call.expression
                                 \o <<", lambda: ">> \o c_call.initial_condition
                                 \o <<")">>)
        /\ c_call.subs # <<>> =>
              /\ Len(n) = 3
              /\ n[1].kind = "setup"
              /\ n[1].py_name = <<"_init_", id>>
              /\ n[1].py_expr = S(c_call.initial_condition)
              /\ n[2].kind = "component"
              /\ n[2].py_name = <<"_d", id, "_dt">>
              /\ n[2].py_expr = S(c_call.expression)
              /\ w.py_expr = S(<<"Integ(lambda: ">> \o n[2].py_name \o <<"(), lambda: ">>
                                 \o n[1].py_name \o <<"())">>)
              /\ Calls(w.py_expr.v, n[1].py_name) /\ Calls(w.py_expr.v, n[2].py_name)
              /\ ~Mentions(w.py_expr.v, c_call.expression)
              /\ ~Mentions(w.py_expr.v, c_call.initial_condition)

\* add_stock has returned three elements for a stock with two subscripts
\* whose derivative is a formula
C12_Witness ==
    /\ c_pc = "returned"
    /\ c_call.builder = "stock"
    /\ Len(c_call.subs) = 2
    /\ c_call.expression = <<"rate()", "*", "2">>
    /\ Len(c_out.new_structure) = 3
    /\ c_out.new_structure[3].py_expr =
          S(<<"Integ(lambda: ", "_d", c_call.identifier, "_dt", "(), lambda: ",
              "_init_", c_call.identifier, "())">>)

\* order expressions that are an integer literal
IntegerLiterals == {<<"3">>}

\* C13 as stated: add_n_delay returns for an order that is an integer
\* literal, and raises, returning no element and no reference, for an order
\* that is anything else.
C13_OrderChecked ==
    (c_pc # "call" /\ c_call.builder = "delay") =>
        IF c_call.order \in IntegerLiterals
        THEN c_pc = "returned" /\ c_out.err = ""
        ELSE c_pc = "raised" /\ c_out.err # "" /\ c_out.new_structure = <<>>

\* C14: add_n_delay returns 1 element without subscripts and 4 with:
\* setup _init_<id>, component _deltime_<id>, component _delinput_<id>, then
\* the wrapper, which calls the three by name; add_n_smooth and add_n_trend
\* return 1 element made of the operand expressions themselves with or
\* without subscripts. The wrapper is the last element and is 'stateful'.
C14_RecordCounts ==
    (c_pc = "returned" /\ c_call.builder \in {"delay", "smooth", "trend"}) =>
        LET id == c_call.identifier
            n == c_out.new_structure
            w == n[Len(n)] IN
        /\ w.kind = "stateful"
        /\ \A k \in 1..(Len(n) - 1) : n[k].kind # "stateful"
        /\ c_out.ref = S(w.py_name \o <<"()">>)
        /\ c_call.builder = "delay" =>
              /\ w.py_name = <<"_delay_", id>>
              /\ Len(n) = IF c_call.subs = <<>> THEN 1 ELSE 4
              /\ c_call.subs = <<>> =>
                    /\ Mentions(w.py_expr.v, c_call.delay_input)
                    /\ Mentions(w.py_expr.v, c_call.delay_time)
              /\ c_call.subs # <<>> =>
                    /\ n[1].kind = "setup" /\ n[1].py_name = <<"_init_", id>>
                    /\ n[1].py_expr = S(c_call.initial_value)
                    /\ n[2].kind = "component" /\ n[2].py_name = <<"_deltime_", id>>
                    /\ n[2].py_expr = S(c_call.delay_time)
                    /\ n[3].kind = "component" /\ n[3].py_name = <<"_delinput_", id>>
                    /\ n[3].py_expr = S(c_call.delay_input)
                    /\ \A k \in 1..3 : Calls(w.py_expr.v, n[k].py_name)
                    /\ ~Mentions(w.py_expr.v, c_call.delay_input)
                    /\ ~Mentions(w.py_expr.v, c_call.delay_time)
        /\ c_call.builder = "smooth" =>
              /\ Len(n) = 1
              /\ w.py_name = <<"_smooth_", id>>
              /\ w.py_expr = S(<<"Smooth(lambda: ">> \o c_call.smooth_input
                                 \o <<", lambda: ">> \o c_call.smooth_time
                                 \o <<", lambda: ">> \o c_call.initial_value
                                 \o <<", lambda: ">> \o c_call.order \o <<")">>)
        /\ c_call.builder = "trend" =>
              /\ Len(n) = 1
              /\ w.py_name = <<"_trend_", id>>
              /\ w.py_expr = S(<<"Trend(lambda: ">> \o c_call.trend_input
                                 \o <<", lambda: ">> \o c_call.average_time
                                 \o <<", lambda: ">> \o c_call.initial_trend \o <<")">>)

\* add_n_delay has returned four elements for a subscripted delay
C14_Witness ==
    /\ c_pc = "returned"
    /\ c_call.builder = "delay"
    /\ Len(c_call.subs) = 2
    /\ Len(c_out.new_structure) = 4
    /\ c_out.new_structure[2].py_name = <<"_deltime_", c_call.identifier>>
    /\ c_out.new_structure[4].kind = "stateful"

----------------------------------------------------------------------------
(* build_function_call *)

\* a function definition that is a dict; a key the dict does not hold is
\* "absent" (parameters: has_parameters is FALSE)
FunctionDef(name, original_name, module, has_parameters, parameters) ==
    [t |-> "dict", name |-> name, original_name |-> original_name,
     module |-> module, has_parameters |-> has_parameters,
     parameters |-> parameters]

\* the literal of the original name put after the user arguments
with_original_name_last(function_def, user_arguments) ==
    IF function_def.name = "not_implemented_function"
    THEN [err |-> IF function_def.original_name = "absent" THEN "KeyError" ELSE "",
          user_arguments |-> Append(user_arguments,
                                    "'" \o function_def.original_name \o "'"),
          warned |-> function_def.original_name # "absent"]
    ELSE [err |-> "", user_arguments |-> user_arguments, warned |-> FALSE]

\* lines 1039-1045: the literal of the original name put before the user
\* arguments, and the warning
with_original_name(function_def, user_arguments) ==
    IF function_def.name = "not_implemented_function"
    THEN [err |-> IF function_def.original_name = "absent" THEN "KeyError" ELSE "",
          user_arguments |-> <<"'" \o function_def.original_name \o "'">>
                                 \o user_arguments,
          warned |-> function_def.original_name # "absent"]
    ELSE [err |-> "", user_arguments |-> user_arguments, warned |-> FALSE]

\* every module recorded as a symbol of the functions set
require_as_symbol(function_def, im) ==
    IF function_def.module = "absent" THEN [err |-> "", import_modules |-> im]
    ELSE [err |-> "",
          import_modules |-> [im EXCEPT !.functions = @ \cup {function_def.module}]]

\* lines 1047-1053: the import the definition asks for
require(function_def, im) ==
    IF function_def.module = "absent" THEN [err |-> "", import_modules |-> im]
    ELSE IF function_def.module \in {"numpy", "xarray"}
    THEN [err |-> "", import_modules |-> [im EXCEPT ![function_def.module] = TRUE]]
    ELSE IF function_def.module \in {"functions", "external", "utils"}
    THEN [err |-> "",
          import_modules |-> [im EXCEPT ![function_def.module] =
                                            @ \cup {function_def.name}]]
    ELSE IF function_def.module = "subs"
    THEN [err |-> "AttributeError", import_modules |-> im]
    ELSE [err |-> "KeyError", import_modules |-> im]

\* the text of a parameter of a type, for the user argument read
ArgumentText(parameter_type, user_argument) ==
    CASE parameter_type = "expression" -> <<user_argument>>
      [] parameter_type = "lambda" -> <<"lambda: ", user_argument>>
      [] parameter_type = "time" -> <<"__data['time']">>
      [] parameter_type = "scope" -> <<"__data['scope']">>

\* the loop over the parameters that passes over an optional parameter
\* without an argument and goes on with the next
RECURSIVE walk_continues(_, _, _, _, _)
walk_continues(parameters, parameter_idx, user_arguments, argument_idx, arguments) ==
    IF parameter_idx >= Len(parameters) THEN [err |-> "", arguments |-> arguments]
    ELSE
    LET parameter_def == parameters[parameter_idx + 1]
        is_optional == parameter_def.optional = "True"
        parameter_type == IF parameter_def.type = "absent" THEN "expression"
                          ELSE parameter_def.type IN
    IF argument_idx >= Len(user_arguments) /\ is_optional
    THEN walk_continues(parameters, parameter_idx + 1, user_arguments, argument_idx,
                        arguments)
    ELSE IF argument_idx >= Len(user_arguments)
    THEN [err |-> "IndexError", arguments |-> arguments]
    ELSE walk_continues(parameters, parameter_idx + 1, user_arguments,
              IF parameter_type \in {"expression", "lambda"}
              THEN argument_idx + 1 ELSE argument_idx,
              Append(arguments,
                     ArgumentText(parameter_type, user_arguments[argument_idx + 1])))

\* lines 1058-1078: the loop over the parameters, from parameter_idx on.
\* [err, arguments]: line 1069 reads user_arguments[argument_idx] for a
\* parameter of any type
RECURSIVE walk(_, _, _, _, _)
walk(parameters, parameter_idx, user_arguments, argument_idx, arguments) ==
    IF parameter_idx >= Len(parameters) THEN [err |-> "", arguments |-> arguments]
    ELSE
    LET parameter_def == parameters[parameter_idx + 1]
        is_optional == parameter_def.optional = "True"
        parameter_type == IF parameter_def.type = "absent" THEN "expression"
                          ELSE parameter_def.type IN
    IF argument_idx >= Len(user_arguments) /\ is_optional
    THEN [err |-> "", arguments |-> arguments]
    ELSE IF argument_idx >= Len(user_arguments)
    THEN [err |-> "IndexError", arguments |-> arguments]
    ELSE walk(parameters, parameter_idx + 1, user_arguments,
              IF parameter_type \in {"expression", "lambda"}
              THEN argument_idx + 1 ELSE argument_idx,
              Append(arguments,
                     ArgumentText(parameter_type, user_arguments[argument_idx + 1])))

\* name + "(" + separator.join(arguments) + ")"
CallText(name, arguments, separator) ==
    <<name, "(">> \o JoinText(arguments, <<separator>>) \o <<")">>

NoText == <<>>

\* build_function_call(function_def, user_arguments) with import_modules im:
\* [err, text, warned, import_modules]
build_function_call(function_def, user_arguments, im) ==
    IF function_def.t = "str"
    THEN [err |-> "", warned |-> FALSE, import_modules |-> im,
          text |-> CallText(function_def.v,
                            [i \in 1..Len(user_arguments) |-> <<user_arguments[i]>>],
                            ",")]
    ELSE
    LET named == with_original_name(function_def, user_arguments) IN
    IF named.err # ""
    THEN [err |-> named.err, warned |-> FALSE, import_modules |-> im, text |-> NoText]
    ELSE
    LET required == require(function_def, im) IN
    IF required.err # ""
    THEN [err |-> required.err, warned |-> named.warned,
          import_modules |-> required.import_modules, text |-> NoText]
    ELSE IF function_def.has_parameters
    THEN LET walked == walk(function_def.parameters, 0, named.user_arguments, 0, <<>>) IN
         IF walked.err # ""
         THEN [err |-> walked.err, warned |-> named.warned,
               import_modules |-> required.import_modules, text |-> NoText]
         ELSE [err |-> "", warned |-> named.warned,
               import_modules |-> required.import_modules,
               text |-> CallText(function_def.name, walked.arguments, ", ")]
    ELSE [err |-> "", warned |-> named.warned,
          import_modules |-> required.import_modules,
          text |-> CallText(function_def.name,
                            [i \in 1..Len(named.user_arguments) |->
                                 <<named.user_arguments[i]>>],
                            ",")]

----------------------------------------------------------------------------
(* Calls of build_function_call by the translator *)

\* how a parameter is declared: its type, or none, and whether it is optional
ParameterDefs ==
    {[type |-> t, optional |-> o] :
        t \in {"expression", "lambda", "time", "scope", "absent"},
        o \in {"True", "absent"}}
    \cup {[type |-> "expression", optional |-> "False"]}

ParameterLists(maxLen) == UNION {[1..n -> ParameterDefs] : n \in 0..maxLen}

\* the modules a definition names: those import_modules has an entry for
Modules == {"numpy", "xarray", "functions", "external", "utils"}

\* the function definitions of the translator: a bare name; a dict with or
\* without parameters; a dict that names a module; a function that is not
\* implemented, with or without parameters
FunctionDefs ==
    {S("f")}
    \cup {FunctionDef("f", "absent", "absent", FALSE, <<>>)}
    \cup {FunctionDef("f", "absent", "absent", TRUE, ps) : ps \in ParameterLists(MaxParams)}
    \cup {FunctionDef("f", "absent", md, FALSE, <<>>) : md \in Modules}
    \cup {FunctionDef("f", "absent", "functions", TRUE, ps) : ps \in ParameterLists(1)}
    \cup {FunctionDef("not_implemented_function", "GET TIME VALUE", "functions",
                       FALSE, <<>>)}
    \cup {FunctionDef("not_implemented_function", "GET TIME VALUE", "functions",
                       TRUE, ps) : ps \in ParameterLists(1)}

\* the user arguments: translated expressions, one per argument of the model
UserArguments(n) == [i \in 1..n |-> "arg" \o ToString(i - 1)]

FunctionCalls ==
    {[function_def |-> fd, user_arguments |-> UserArguments(n)] :
        fd \in FunctionDefs, n \in 0..MaxArgs}

\* the translator calls build_function_call for a use of the function
FunctionCall ==
    /\ f_n < MaxCalls
    /\ LET r == build_function_call(f_call.function_def, f_call.user_arguments,
                                    import_modules) IN
        /\ f_out' = Append(f_out, [err |-> r.err, text |-> r.text, warned |-> r.warned,
                                   before |-> import_modules,
                                   after |-> r.import_modules])
        /\ import_modules' = r.import_modules
    /\ f_n' = f_n + 1
    /\ last' = [op |-> "call", ok |-> TRUE, after_build |-> FALSE, built |-> {}]
    /\ emitted' = NoEmitted
    /\ UNCHANGED <<build_names, elements, log, f_call>>
    /\ UNCHANGED <<mergeVars, elementVars, constructVars, processVars>>

InitCall ==
    /\ build_names = {}
    /\ elements = <<>>
    /\ log = <<>>
    /\ last = [op |-> "start", ok |-> TRUE, after_build |-> FALSE, built |-> {}]
    /\ emitted = NoEmitted
    /\ MergeIdle
    /\ ElementIdle
    /\ ConstructIdle
    /\ ProcessIdle
    /\ import_modules \in ImportsAtCall
    /\ f_call \in FunctionCalls
    /\ f_out = <<>>
    /\ f_n = 0

NextCall == FunctionCall \/ Build

SpecCall == InitCall /\ [][NextCall]_vars

----------------------------------------------------------------------------
(* Claims about build_function_call, checked under SpecCall *)

\* a parameter that takes a user argument
Consumes(parameter_def) == parameter_def.type \in {"expression", "lambda", "absent"}

\* the user arguments the first k parameters take
Consumed(ps, k) == Cardinality({j \in 1..k : Consumes(ps[j])})

\* the first optional parameter reached with no user argument left, or
\* Len(ps) + 1 when there is none
Cut(ps, args) ==
    LET stops == {k \in 1..Len(ps) :
                    ps[k].optional = "True" /\ Consumed(ps, k - 1) >= Len(args)} IN
    IF stops = {} THEN Len(ps) + 1
    ELSE CHOOSE k \in stops : \A h \in stops : k <= h

\* every considered parameter that takes a user argument finds one
Supplied(ps, args) ==
    \A k \in 1..(Cut(ps, args) - 1) : Consumes(ps[k]) => Consumed(ps, k - 1) < Len(args)

\* every considered parameter, of any type, is reached with one left
Covered(ps, args) ==
    \A k \in 1..(Cut(ps, args) - 1) : Consumed(ps, k - 1) < Len(args)

\* the text of parameter k: the next user argument not yet taken, as it is or
\* behind lambda, or the accessor of time or scope
Rendered(ps, args, k) ==
    CASE ps[k].type = "time" -> <<"__data['time']">>
      [] ps[k].type = "scope" -> <<"__data['scope']">>
      [] ps[k].type = "lambda" -> <<"lambda: ", args[Consumed(ps, k - 1) + 1]>>
      [] OTHER -> <<args[Consumed(ps, k - 1) + 1]>>

\* the call with the parameters before the cut rendered in declared order
ExpectedText(name, ps, args) ==
    CallText(name, [k \in 1..(Cut(ps, args) - 1) |-> Rendered(ps, args, k)], ", ")

\* the calls made so far are calls of f with a parameter list
ParameterCall ==
    /\ f_call.function_def.t = "dict"
    /\ f_call.function_def.name = "f"
    /\ f_call.function_def.has_parameters

\* C15 as stated: the parameters are rendered in declared order, an
\* expression (or untyped) parameter as the next user argument, a lambda
\* parameter as that argument behind lambda, a time or scope parameter as the
\* accessor, which takes no user argument and needs none to be left.
C15_Rendering ==
    ParameterCall =>
        \A i \in 1..Len(f_out) :
            LET ps == f_call.function_def.parameters
                args == f_call.user_arguments IN
            Supplied(ps, args) =>
                /\ f_out[i].err = ""
                /\ f_out[i].text = ExpectedText("f", ps, args)

\* C16: the call returns exactly when no considered parameter before the
\* cut is reached with the user arguments used up; then the text holds the
\* parameters before the first optional parameter reached with the user
\* arguments used up, and neither that one nor any after it. A parameter
\* that is not optional and is reached with the arguments used up is not
\* passed over: the call raises IndexError.
C16_OptionalOmission ==
    ParameterCall =>
        \A i \in 1..Len(f_out) :
            LET ps == f_call.function_def.parameters
                args == f_call.user_arguments
                cut == Cut(ps, args) IN
            /\ f_out[i].err = "" <=> Covered(ps, args)
            /\ f_out[i].err # "" =>
                  /\ f_out[i].err = "IndexError"
                  /\ f_out[i].text = NoText
                  /\ \E k \in 1..(cut - 1) :
                        ps[k].optional # "True" /\ Consumed(ps, k - 1) >= Len(args)
            /\ f_out[i].err = "" =>
                  /\ f_out[i].text = ExpectedText("f", ps, args)
                  /\ cut <= Len(ps) => Consumed(ps, cut - 1) >= Len(args)

\* f(expression, optional time) called with one user argument: the optional
\* parameter is left out though its type takes no argument
C16_Witness ==
    /\ f_n >= 1
    /\ ParameterCall
    /\ f_call.function_def.module = "absent"
    /\ f_call.function_def.parameters =
          <<[type |-> "expression", optional |-> "absent"],
            [type |-> "time", optional |-> "True"]>>
    /\ f_call.user_arguments = <<"arg0">>
    /\ f_out[1].err = ""
    /\ f_out[1].text = <<"f", "(", "arg0", ")">>

\* the registry b holds everything the registry a holds
Includes(b, a) ==
    /\ \A md \in {"numpy", "xarray", "subs"} : a[md] => b[md]
    /\ \A md \in {"functions", "external", "utils"} : a[md] \subseteq b[md]

\* the names a symbol set of the registry may hold
Symbols == {"f", "not_implemented_function", "Integ", "ExtData"}

\* C18: import_modules keeps its shape (numpy, xarray and subs booleans,
\* functions, external and utils sets); a call of build_function_call never
\* takes an entry away; it records a module numpy or xarray as a flag and
\* any other module by adding the definition's name to the module's set; a
\* bare name or a definition without module changes nothing; a call repeated
\* on the registry the first left changes nothing; and the registry differs
\* from what the last call left only after build has reset it.
C18_RegistryShape ==
    /\ DOMAIN import_modules = DOMAIN ImportInit
    /\ \A md \in {"numpy", "xarray", "subs"} : import_modules[md] \in BOOLEAN
    /\ \A md \in {"functions", "external", "utils"} : import_modules[md] \subseteq Symbols
    /\ \A i \in 1..Len(f_out) :
          LET o == f_out[i]
              d == f_call.function_def IN
          /\ Includes(o.after, o.before)
          /\ d.t = "str" => o.after = o.before
          /\ d.t = "dict" =>
                /\ d.module = "absent" => o.after = o.before
                /\ d.module \in {"numpy", "xarray"} =>
                      o.after = [o.before EXCEPT ![d.module] = TRUE]
                /\ d.module \in {"functions", "external", "utils"} =>
                      o.after = [o.before EXCEPT ![d.module] = @ \cup {d.name}]
          /\ (i > 1 /\ o.before = f_out[i - 1].after) => o.after = o.before
    /\ (f_out # <<>> /\ import_modules # f_out[Len(f_out)].after) =>
          (last.op = "build" /\ import_modules = ImportInit)

\* two calls of a definition of module functions with no build between: the
\* first adds the name, the second changes nothing
C18_Witness ==
    /\ f_n = 2
    /\ f_call.function_def.t = "dict"
    /\ f_call.function_def.module = "functions"
    /\ f_out[1].before.functions = {"Integ"}
    /\ f_out[1].after.functions = {"Integ", "f"}
    /\ f_out[2].before = f_out[1].after
    /\ f_out[2].after = f_out[1].after
    /\ import_modules = f_out[2].after

\* the calls made so far are calls of a function that is not implemented
NotImplementedCall ==
    /\ f_call.function_def.t = "dict"
    /\ f_call.function_def.name = "not_implemented_function"

\* the literal of the original name
OriginalLiteral == "'" \o f_call.function_def.original_name \o "'"

----------------------------------------------------------------------------
(* One process translating models: builder calls of the translator for one
   model after another, and build called with the element list of the model
   whose translation ended first *)

\* what the process keeps of a builder call: the builder, the identifier
\* and the subscripts it was called with, and the names of the elements it
\* returned
Kept(builder, identifier, subs, new_structure) ==
    [builder |-> builder, identifier |-> identifier, subs |-> subs,
     names |-> [i \in 1..Len(new_structure) |-> new_structure[i].py_name]]

\* the translator puts the returned structure at the end of the element list
KeepStructure(builder, identifier, subs, new_structure) ==
    /\ elements' = elements \o new_structure
    /\ p_calls' = Append(p_calls, Kept(builder, identifier, subs, new_structure))
    /\ last' = [op |-> builder, ok |-> TRUE, after_build |-> FALSE, built |-> {}]
    /\ emitted' = NoEmitted
    /\ UNCHANGED log
    /\ UNCHANGED <<mergeVars, elementVars, constructVars, callVars>>

\* the translator meets a stock x over the subscript A
KeepStock ==
    /\ Len(p_calls) < MaxSteps
    /\ \E subs \in {<<"A">>} :
        \E r \in {add_stock("x", <<"inflow()">>, <<"0">>, subs, import_modules)} :
            /\ import_modules' = r.import_modules
            /\ KeepStructure("add_stock", "x", subs, r.new_structure)
    /\ UNCHANGED build_names

\* the translator meets a delay over A whose identifier is x as well
KeepDelay ==
    /\ Len(p_calls) < MaxSteps
    /\ \E subs \in {<<"A">>} :
        \E r \in {add_n_delay("x", <<"inflow()">>, <<"dt()">>, <<"1">>, <<"3">>, subs,
                              import_modules)} :
            /\ import_modules' = r.import_modules
            /\ KeepStructure("add_n_delay", "x", subs, r.new_structure)
    /\ UNCHANGED build_names

\* the translator meets a data request of the external source x, another
\* cell, other subscripts and another keyword than the requests registered
KeepExtData ==
    /\ Len(p_calls) < MaxSteps
    /\ \E pay \in {PayloadOf(Cardinality(build_names) + 1)} :
        \E r \in {ExtCall("data", "x", pay, build_names, import_modules)} :
            /\ build_names' = r.build_names
            /\ import_modules' = r.import_modules
            /\ KeepStructure("add_ext_data", "x", pay.subs.v, r.new_structure)

\* the translator hands over a fragment of the variable v: one with an
\* expression, or the placeholder of a fragment defined elsewhere; the first
\* fragment in the list is over A, the later ones over B
KeepElement ==
    /\ Len(p_calls) < MaxSteps
    /\ \E py_expr \in {S(<<"1">>), S(<<"None">>)} :
        \E subs \in {IF \A i \in 1..Len(p_calls) : p_calls[i].builder # "element"
                     THEN <<"A">> ELSE <<"B">>} :
            KeepStructure("element", "v", subs,
                          <<ModelElement("component", L(subs), py_expr)>>)
    /\ UNCHANGED <<build_names, import_modules>>

\* the number of elements the first c kept calls returned
RECURSIVE ElementsOf(_, _)
ElementsOf(calls, c) ==
    IF c = 0 THEN 0 ELSE ElementsOf(calls, c - 1) + Len(calls[c].names)

\* build(elements, ...) for the model whose translation ended first: its
\* elements are those of the first c calls, the calls after them were made
\* for the next model before this build runs. The build merges, builds every
\* element, assembles the text with the import lines the registry asks for,
\* resets the registries and returns; an exception of build_element leaves
\* before the reset.
BuildFirst ==
    /\ p_calls # <<>>
    /\ \E c \in 1..Len(p_calls) :
        LET k == ElementsOf(p_calls, c)
            model == SubSeq(elements, 1, k) IN
        /\ \E b \in {build_elements(merge_partial_elements(model).outs, <<>>,
                                     import_modules)} :
            IF b.err # ""
            THEN /\ import_modules' = b.import_modules
                 /\ UNCHANGED build_names
                 /\ emitted' = NoEmitted
                 /\ last' = [op |-> "build", ok |-> FALSE, after_build |-> FALSE,
                             built |-> {}]
            ELSE /\ emitted' = [imports |-> b.import_modules,
                                 functions |-> b.functions,
                                 given |-> model, requests |-> <<>>,
                                 calls |-> SubSeq(p_calls, 1, c)]
                 /\ build_names' = reset_names(build_names)
                 /\ import_modules' = reset_imports(b.import_modules)
                 /\ last' = [op |-> "build", ok |-> TRUE, after_build |-> FALSE,
                             built |-> {}]
        /\ elements' = SubSeq(elements, k + 1, Len(elements))
        /\ p_calls' = SubSeq(p_calls, c + 1, Len(p_calls))
    /\ UNCHANGED log
    /\ UNCHANGED <<mergeVars, elementVars, constructVars, callVars>>

NextProcess ==
    \/ KeepStock
    \/ KeepDelay
    \/ KeepExtData
    \/ KeepElement
    \/ BuildFirst

SpecProcess == Init /\ [][NextProcess]_vars

----------------------------------------------------------------------------
(* Helper names of the construct builders *)

\* the names of the elements a kept call returned
NameSet(call) == {call.names[i] : i \in 1..Len(call.names)}

\* a is a call of add_stock, b one of add_n_delay, both with subscripts and
\* with the same identifier
StockAndDelay(a, b) ==
    /\ a.builder = "add_stock"
    /\ b.builder = "add_n_delay"
    /\ a.identifier = b.identifier
    /\ a.subs # <<>>
    /\ b.subs # <<>>

\* the build returned
Built == last.op = "build" /\ last.ok

\* C21: helper names of different construct builders never collide. For one
\* identifier the names of the elements add_stock returns with subscripts and
\* those add_n_delay returns with subscripts are disjoint, and when the
\* records of both calls were handed to a build, no name of the one call and
\* of the other is the name of one emitted definition: no merged element
\* mixes a fragment of the stock with a fragment of the delay.
C21_HelpersDisjoint ==
    /\ \A i, j \in 1..Len(p_calls) :
          StockAndDelay(p_calls[i], p_calls[j]) =>
              NameSet(p_calls[i]) \cap NameSet(p_calls[j]) = {}
    /\ Built =>
          \A i, j \in 1..Len(emitted.calls) :
              StockAndDelay(emitted.calls[i], emitted.calls[j]) =>
                  \A f \in 1..Len(emitted.functions) :
                      emitted.functions[f].py_name \notin
                          NameSet(emitted.calls[i]) \cap NameSet(emitted.calls[j])

\* the stock x and the delay x, both over A, were built together: _init_x is
\* one definition, merged of the initial value of the stock and of the delay
C21_Collision ==
    /\ Built
    /\ \E i, j \in 1..Len(emitted.calls) :
          StockAndDelay(emitted.calls[i], emitted.calls[j])
    /\ \E f \in 1..Len(emitted.functions) :
          /\ emitted.functions[f].form = "def"
          /\ emitted.functions[f].py_name = <<"_init_", "x">>
          /\ emitted.functions[f].contents[2] = "xrmerge(["

----------------------------------------------------------------------------
(* The order of the emitted definitions *)

\* the fragment has an expression: it is not a placeholder
IsLive(fragment) == fragment.py_expr # S(<<"None">>)

\* the positions in the list given to build where a name that is emitted
\* occurs for the first time, in order
AnyFirsts(given) ==
    SelectSeq([i \in 1..Len(given) |-> i],
              LAMBDA i : /\ \E j \in 1..Len(given) :
                              IsLive(given[j]) /\ given[j].py_name = given[i].py_name
                         /\ \A j \in 1..(i - 1) : given[j].py_name # given[i].py_name)

\* the positions where a name occurs for the first time in a fragment that
\* has an expression, in order
LiveFirsts(given) ==
    SelectSeq([i \in 1..Len(given) |-> i],
              LAMBDA i : /\ IsLive(given[i])
                         /\ \A j \in 1..(i - 1) :
                               IsLive(given[j]) => given[j].py_name # given[i].py_name)

\* f is the text emitted for the element of that name: its definition, the
\* assignment of its object, or the .add statement on the name it extends
StatementOf(f, name) ==
    \/ f.form \in {"def", "assign"} /\ f.py_name = name
    \/ f.form = "add" /\ f.py_name = SplitADD(name)

\* in the list every external_add record comes after the external record of
\* the name it extends
AddsFollow(given) ==
    \A k \in 1..Len(given) :
        given[k].kind = "external_add" =>
            \E h \in 1..(k - 1) :
                /\ given[h].kind = "external"
                /\ given[h].py_name = SplitADD(given[k].py_name)

\* every .add statement comes after the statement that constructs the object
\* it is called on
ConstructedBefore(functions) ==
    \A j \in 1..Len(functions) :
        functions[j].form = "add" =>
            \E i \in 1..(j - 1) :
                /\ functions[i].form = "assign"
                /\ functions[i].py_name = functions[j].py_name

\* the emitted statements are those of the names at the positions firsts of
\* the list given, one each and in that order
EmittedInOrder(firsts) ==
    /\ Len(emitted.functions) = Len(firsts)
    /\ \A j \in 1..Len(firsts) :
          StatementOf(emitted.functions[j], emitted.given[firsts[j]].py_name)

\* C22 as stated: build emits the element definitions in the order in which
\* their names occur for the first time in the list it is given; and when
\* every external_add record of the list comes after the external record of
\* its name, the statement constructing the external object precedes every
\* .add statement on it.
C22_FirstOccurrenceOrder ==
    Built =>
        /\ EmittedInOrder(AnyFirsts(emitted.given))
        /\ AddsFollow(emitted.given) => ConstructedBefore(emitted.functions)

\* C22: build emits one statement for each name that has a fragment whose
\* py_expr is not "None", in the order in which the names occur for the first
\* time in such a fragment; placeholder fragments do not count. When every
\* external_add record of the list comes after the external record of its
\* name, the statement constructing the external object precedes every .add
\* statement on it.
C22_FirstLiveOrder ==
    Built =>
        /\ EmittedInOrder(LiveFirsts(emitted.given))
        /\ AddsFollow(emitted.given) => ConstructedBefore(emitted.functions)

\* a build of the external object x, the variable v and a second request of
\* x, in that order: the object, the definition, the .add statement
C22_Witness ==
    /\ Built
    /\ Len(emitted.given) = 3
    /\ emitted.given[1].kind = "external"
    /\ emitted.given[2].kind = "component"
    /\ emitted.given[3].kind = "external_add"
    /\ AddsFollow(emitted.given)
    /\ [j \in 1..3 |-> emitted.functions[j].form] = <<"assign", "def", "add">>
    /\ emitted.functions[3].py_name = emitted.functions[1].py_name

----------------------------------------------------------------------------
(* The import registry at the moment of a build *)

\* the constructor an element's expression calls, and the set of the
\* registry its symbol belongs to
Constructors ==
    {[symbol |-> "Integ", text |-> "Integ(lambda: ", set |-> "functions"],
     [symbol |-> "Delay", text |-> "Delay(lambda: ", set |-> "functions"],
     [symbol |-> "ExtData", text |-> "ExtData(", set |-> "external"]}

\* the element is a stateful or external object made by that constructor
Constructs(element, constructor) ==
    /\ element.kind \in {"stateful", "external"}
    /\ element.py_expr.v # <<>>
    /\ Head(element.py_expr.v) = constructor.text

\* the text holds the token
Holds(text, token) == \E i \in 1..Len(text) : text[i] = token

\* the subscripts of a fragment are not empty
HasSubscripts(fragment) == fragment.subs \notin {S(<<>>), L(<<>>), PyNone}

\* C23: whatever builder calls and builds the process made before, also
\* builder calls for the next model made before this build ran, the import
\* lines a build emits are made of a registry that holds every runtime symbol
\* the elements given to that build refer to: the constructor symbol of each
\* stateful or external object, rearrange and xrmerge when a merged
\* expression uses them, and the subs flag when an emitted definition has
\* the @subs decorator, which is the case exactly for the elements of kind
\* component or setup whose first subscript fragment is not empty.
C23_ImportsCover ==
    Built =>
        LET given == emitted.given
            functions == emitted.functions
            imports == emitted.imports
            firsts == LiveFirsts(given) IN
        /\ \A k \in 1..Len(given) : \A c \in Constructors :
              Constructs(given[k], c) => c.symbol \in imports[c.set]
        /\ \A j \in 1..Len(functions) :
              functions[j].form = "def" =>
                  /\ Holds(functions[j].contents, "xrmerge([") =>
                        "xrmerge" \in imports.utils
                  /\ Holds(functions[j].contents, "rearrange(") =>
                        "rearrange" \in imports.utils
                  /\ functions[j].subs_dec # <<>> => imports.subs
                  /\ j <= Len(firsts) =>
                        (functions[j].subs_dec # <<>> <=>
                            /\ functions[j].kind \in {"component", "setup"}
                            /\ HasSubscripts(given[firsts[j]]))

\* a build of the data object x alone, requested for the next model before
\* the build of a stock reset the registry: its import lines are made of a
\* registry without ExtData
C23_Unregistered ==
    /\ Built
    /\ Len(emitted.given) = 1
    /\ emitted.given[1].kind = "external"
    /\ emitted.functions[1].form = "assign"
    /\ "ExtData" \notin emitted.imports.external

====
